---- MODULE Spec2Model ----
(***************************************************************************)
(* A model of the build orchestration core of toxicmaster                  *)
(* (src/toxicmaster/build.py): the Build / BuildSet documents of the       *)
(* store, the BuildManager's per-repository queue and consumer loop, the   *)
(* BuildExecuter's admission passes and _run_build tasks, and the Slave's  *)
(* queue accounting and build session.                                     *)
(*                                                                         *)
(* Coroutines are modelled as tasks with a position (pc); one action is    *)
(* what a task does between two suspension points (an await that really    *)
(* yields: a store read or write, network I/O, a lock, a sleep).           *)
(***************************************************************************)
EXTENDS Integers, Sequences, FiniteSets, TLC

VARIABLES
    repo,          \* the Repository document: parallel_builds, build config, slaves
    buildsets,     \* the BuildSet collection of the store, in creation order
    build_queues,  \* BuildManager._build_queues[repo.id]: ids of queued buildsets
    is_building,   \* BuildManager._is_building[repo.id]
    slaves,        \* the Slave documents: enqueued_builds, queue_count, write-lock
    consumers,     \* the BuildManager._execute_builds tasks, with their BuildExecuter
    ret,           \* what the last synchronous call of the environment returned
    signals,       \* the lifecycle events emitted so far: in-process signals and
                   \* published notifications, each with the id of its sender
    cancellers     \* the BuildManager.cancel_previous_pending calls

vars == <<repo, buildsets, build_queues, is_building, slaves, consumers, ret,
          signals, cancellers>>

----------------------------------------------------------------------------
(* Bounds of the model *)

\* buildsets a repository receives
MaxBuildSets == 2
\* calls of add_builds_for_buildset followed for the build numbers
MaxCalls == 3
\* the value running_count of a slave is followed up to
MaxRunning == 3
\* output fragments a worker sends for one step
MaxFragments == 3

----------------------------------------------------------------------------
(* Statuses *)

\* a bug a reader could make: fail given priority over cancelled
ORDERED_STATUSES_fail_first ==
    <<"running", "fail", "cancelled", "exception",
      "warning", "success", "preparing", "pending">>

\* The statuses used in builds ordered by priority
ORDERED_STATUSES ==
    <<"running", "cancelled", "exception", "fail",
      "warning", "success", "preparing", "pending">>

PENDING == "pending"
PREPARING == "preparing"
RUNNING == "running"
CANCELLED == "cancelled"
EXCEPTION == "exception"
NO_BUILDS == "no builds"
NO_CONFIG == "no config"

\* BuildStep.STATUSES + [PENDING, PREPARING]
STATUSES ==
    {"running", "fail", "success", "exception", "warning", "cancelled",
     "pending", "preparing"}

\* the statuses a build ends with
TerminalStatuses == {"fail", "success", "exception", "warning", "cancelled"}

\* ORDERED_STATUSES.index(i)
StatusIndex(s) == CHOOSE i \in DOMAIN ORDERED_STATUSES : ORDERED_STATUSES[i] = s

\* sorted(build_statuses, key=lambda i: ORDERED_STATUSES.index(i)) of a set
SortedStatuses(S) == SelectSeq(ORDERED_STATUSES, LAMBDA s : s \in S)

\* a bug a reader could make: the first of the list sorted the other way round
get_status_last(builds) ==
    IF builds = <<>> THEN NO_BUILDS
    ELSE LET ordered_statuses ==
                 SortedStatuses({builds[i].status : i \in DOMAIN builds})
         IN  ordered_statuses[Len(ordered_statuses)]

\* BuildSet.get_status
get_status(builds) ==
    IF builds = <<>> THEN NO_BUILDS
    ELSE LET build_statuses == {builds[i].status : i \in DOMAIN builds}
             ordered_statuses == SortedStatuses(build_statuses)
         IN  ordered_statuses[1]

----------------------------------------------------------------------------
(* The documents of the store *)

Builders == {"A", "B", "C"}
Slaves == {"s1"}
NoSlave == "none"

\* uuid of the build at position pos of buildset bs (uuid4() in the code:
\* unique, and nothing but its identity is used)
Uuid(bs, pos) == bs * 10 + pos
\* a uuid no build of the store has
NoUuid == 0

Rule(name, sts) == [builder_name |-> name, statuses |-> sts]

\* started and finished tell whether the timestamp of that name is set
NewBuild(uuid, builder, number, triggered_by) ==
    [uuid |-> uuid, builder |-> builder, number |-> number,
     status |-> PENDING, triggered_by |-> triggered_by, slave |-> NoSlave,
     started |-> FALSE, finished |-> FALSE, steps |-> <<>>,
     external |-> FALSE]

\* a BuildStep; its output is the sequence of the chunks written to it
NewStep(uuid, status) == [uuid |-> uuid, status |-> status, output |-> <<>>]

\* the branch of the revisions that carry no other one
Master == "master"

NewBuildSet(builds) ==
    [builds |-> builds, status |-> PENDING, started |-> FALSE,
     finished |-> FALSE, branch |-> Master]

\* a signal sent, or a notification published, by the document with this id
\* (the position of a buildset in the collection, the uuid of a build)
Signal(name, id) == [name |-> name, id |-> id]

\* the builds of the whole collection, as a set
AllBuilds(bss) == {bss[i].builds[j] : <<i, j>> \in
                      {<<i, j>> \in (DOMAIN bss) \X (1..9) : j \in DOMAIN bss[i].builds}}

StoredUuids == {b.uuid : b \in AllBuilds(buildsets)}

\* Build.get(uuid): the embedded build with this uuid, or none
BuildExists(bss, uuid) == \E b \in AllBuilds(bss) : b.uuid = uuid
Build_get(bss, uuid) == CHOOSE b \in AllBuilds(bss) : b.uuid = uuid

\* Build.get_buildset: the index of the buildset holding the build
get_buildset(bss, uuid) ==
    CHOOSE i \in DOMAIN bss : \E j \in DOMAIN bss[i].builds : bss[i].builds[j].uuid = uuid

\* a bug a reader could make: the update is not positional and sets every
\* build of the buildset that holds the uuid
Build_update_not_positional(bss, build) ==
    [i \in DOMAIN bss |->
        IF \E j \in DOMAIN bss[i].builds : bss[i].builds[j].uuid = build.uuid
        THEN [bss[i] EXCEPT !.builds = [j \in DOMAIN bss[i].builds |-> build]]
        ELSE bss[i]]

\* Build.update: the atomic update of the embedded build with the uuid of
\* `build`, which replaces the whole embedded document by the local copy
Build_update(bss, build) ==
    [i \in DOMAIN bss |->
        [bss[i] EXCEPT !.builds =
            [j \in DOMAIN bss[i].builds |->
                IF bss[i].builds[j].uuid = build.uuid THEN build
                ELSE bss[i].builds[j]]]]

----------------------------------------------------------------------------
(* Trigger rules *)

\* rules[doc.builder_name] = doc.statuses, for doc in triggered_by: a later
\* rule of the same builder replaces an earlier one
RulesFor(triggered_by, name) ==
    LET idx == {i \in DOMAIN triggered_by : triggered_by[i].builder_name = name}
    IN  IF idx = {} THEN {}
        ELSE triggered_by[CHOOSE i \in idx : \A j \in idx : j <= i].statuses

RECURSIVE CheckRulesFrom(_, _, _, _)
\* the loop of Build._check_build_rules over buildset.builds from position j,
\* with `ok` rules found satisfied so far
CheckRulesFrom(self, builds, j, ok) ==
    IF j > Len(builds)
    THEN IF ok = Len(self.triggered_by) THEN "True" ELSE "False"
    ELSE LET build == builds[j]
             rule == RulesFor(self.triggered_by, build.builder)
         IN  IF build.uuid = self.uuid
             THEN CheckRulesFrom(self, builds, j + 1, ok)
             ELSE IF rule = {} \/ build.status = PENDING
             THEN CheckRulesFrom(self, builds, j + 1, ok)
             ELSE IF build.status \notin rule
             THEN "None"
             ELSE CheckRulesFrom(self, builds, j + 1, ok + 1)

\* Build._check_build_rules
check_build_rules(bss, self) ==
    CheckRulesFrom(self, bss[get_buildset(bss, self.uuid)].builds, 1, 0)

\* a bug a reader could make: the trigger rules checked whatever the status
\* of the build itself
is_ready2run_any_status(bss, self) ==
    IF ~BuildExists(bss, self.uuid) THEN "False"
    ELSE IF self.triggered_by = <<>> THEN "True"
    ELSE check_build_rules(bss, self)

\* Build.is_ready2run of the local object `self`: "True", "False" or "None"
is_ready2run(bss, self) ==
    IF ~BuildExists(bss, self.uuid) THEN "False"
    ELSE IF Build_get(bss, self.uuid).status # PENDING THEN "False"
    ELSE IF self.triggered_by = <<>> THEN "True"
    ELSE check_build_rules(bss, self)

----------------------------------------------------------------------------
(* Calls on a stored buildset: BuildSet.update_status, Build.is_ready2run *)

NoRet == [op |-> "none", arg |-> 0, val |-> ""]

\* triggered_by lists whose rules name distinct builders among `names`, each
\* with one of the status lists `sts`
TriggeredBySets(names, sts) ==
    {<<>>}
    \cup {<<Rule(q[1], q[2])>> : q \in names \X sts}
    \cup {<<Rule(q[1], q[2]), Rule(q[3], q[4])>> :
            q \in {q \in names \X sts \X names \X sts : q[1] # q[3]}}

\* every status list over success and pending, the empty one included
AnyRuleStatuses == SUBSET {"success", "pending"}
\* the non-empty lists of statuses a build ends with
EndRuleStatuses == {{"success"}, {"fail"}, {"success", "fail"}}

\* stored buildsets of builders A, B, C (a prefix of them), their builds in
\* any status, the build of A triggered by one of the lists `trigs`
StoredBuildSets(trigs) ==
    {NewBuildSet([j \in 1..n |->
         [NewBuild(Uuid(1, j), <<"A", "B", "C">>[j], j,
                   IF j = 1 THEN t ELSE <<>>)
              EXCEPT !.status = st[j],
                     !.started = st[j] \in {RUNNING} \cup (TerminalStatuses \ {CANCELLED}),
                     !.finished = st[j] \in TerminalStatuses \ {CANCELLED}]]) :
       <<n, st, t>> \in {<<n, st, t>> \in (1..3) \X [1..3 -> STATUSES] \X trigs :
               \A j \in 1..3 : j > n => st[j] = PENDING}}

\* the keys of the stored envvars of the repository, and of the secrets of
\* its owners
RepoEnvvars == {"ENV"}
Secrets == {"SECRET"}

TheRepo(parallel, conf, slvs) ==
    [parallel_builds |-> parallel, conf |-> conf, slaves |-> slvs,
     envvars |-> RepoEnvvars]

\* the uuids of the steps a worker reports
StepUuids == {"x", "y"}

IdleSlaves ==
    [s \in Slaves |-> [enqueued_builds |-> <<>>, queue_count |-> 0,
                       running_repos |-> <<>>, running_count |-> 0,
                       cancel_requests |-> {}, locked |-> FALSE,
                       on_demand |-> FALSE, instance_running |-> FALSE,
                       step_output_cache_time |-> [u \in StepUuids |-> 0]]]

\* a store holding one buildset, nothing queued and no task
InitStored(trigs) ==
    /\ repo = TheRepo(0, <<>>, Slaves)
    /\ buildsets \in {<<bs>> : bs \in StoredBuildSets(trigs)}
    /\ build_queues = <<>>
    /\ is_building = FALSE
    /\ slaves = IdleSlaves
    /\ consumers = <<>>
    /\ ret = NoRet
    /\ signals = {}
    /\ cancellers = <<>>

\* BuildSet.update_status(): status = self.get_status(); save
UpdateStatus(i) ==
    /\ buildsets' = [buildsets EXCEPT ![i].status = get_status(buildsets[i].builds)]
    /\ ret' = [op |-> "update_status", arg |-> i,
               val |-> get_status(buildsets[i].builds)]
    /\ UNCHANGED <<repo, cancellers, build_queues, is_building, slaves, consumers, signals>>

\* the local Build object a caller holds for uuid: the stored build, or an
\* object whose buildset is gone
LocalObject(uuid) ==
    IF BuildExists(buildsets, uuid) THEN Build_get(buildsets, uuid)
    ELSE NewBuild(uuid, "A", 0, <<>>)

\* build.is_ready2run() on a build of the store, or on one that was removed
IsReady2Run(uuid) ==
    /\ ret' = [op |-> "is_ready2run", arg |-> uuid,
               val |-> is_ready2run(buildsets, LocalObject(uuid))]
    /\ UNCHANGED <<repo, cancellers, buildsets, build_queues, is_building, slaves, consumers,
                   signals>>

\* get_status over every vector of one to three build statuses
NextStatus == \E i \in DOMAIN buildsets : UpdateStatus(i)

SpecStatus == InitStored({<<>>}) /\ [][NextStatus]_vars

\* is_ready2run over every buildset of one to three builds and every list of
\* rules on its siblings, for each build of it and for a removed build
NextReady ==
    \E uuid \in {b.uuid : b \in AllBuilds(buildsets)} \cup {NoUuid} : IsReady2Run(uuid)

SpecReady ==
    InitStored(TriggeredBySets({"B", "C"}, AnyRuleStatuses)) /\ [][NextReady]_vars

\* the same, the rules listing statuses a sibling can end with
SpecReadyRules ==
    InitStored(TriggeredBySets({"B", "C"}, EndRuleStatuses)) /\ [][NextReady]_vars

----------------------------------------------------------------------------
(* Slave: queue accounting and the write-lock of a build session *)

InSeq(x, s) == \E i \in DOMAIN s : s[i] = x

\* list.remove(x): the list without the first element equal to x
RemoveFirst(s, x) ==
    LET i == CHOOSE i \in DOMAIN s : s[i] = x /\ \A j \in 1..(i - 1) : s[j] # x
    IN  SubSeq(s, 1, i - 1) \o SubSeq(s, i + 1, Len(s))

\* a bug a reader could make: the uuid is appended whether enqueued or not
enqueue_build_always(slvs, s, uuid) ==
    [slvs EXCEPT ![s].enqueued_builds = Append(@, uuid),
                 ![s].queue_count = @ + 1]

\* Slave.enqueue_build: a no-op if the uuid is already enqueued
enqueue_build(slvs, s, uuid) ==
    IF InSeq(uuid, slvs[s].enqueued_builds) THEN slvs
    ELSE [slvs EXCEPT ![s].enqueued_builds = Append(@, uuid),
                      ![s].queue_count = @ + 1]

\* a bug a reader could make: the entry leaves the list, the count stays
dequeue_build_keeps_count(slvs, s, uuid) ==
    IF ~InSeq(uuid, slvs[s].enqueued_builds) THEN slvs
    ELSE [slvs EXCEPT ![s].enqueued_builds = RemoveFirst(@, uuid)]

\* Slave.dequeue_build: a no-op if the uuid is not enqueued
dequeue_build(slvs, s, uuid) ==
    IF ~InSeq(uuid, slvs[s].enqueued_builds) THEN slvs
    ELSE [slvs EXCEPT ![s].enqueued_builds = RemoveFirst(@, uuid),
                      ![s].queue_count = @ - 1]

\* what the two return
enqueue_build_returns(slvs, s, uuid) ==
    IF InSeq(uuid, slvs[s].enqueued_builds) THEN "False" ELSE "True"

dequeue_build_returns(slvs, s, uuid) ==
    IF InSeq(uuid, slvs[s].enqueued_builds) THEN "True" ELSE "False"

\* Slave.add_running_repo: the repository joins running_repos, which holds a
\* repository once, and running_count is incremented
add_running_repo(slvs, s, repo_id) ==
    [slvs EXCEPT ![s].running_repos = IF InSeq(repo_id, @) THEN @
                                      ELSE Append(@, repo_id),
                 ![s].running_count = @ + 1]

\* Slave.rm_running_repo: the repository leaves running_repos and
\* running_count is decremented
rm_running_repo(slvs, s, repo_id) ==
    [slvs EXCEPT ![s].running_repos = IF InSeq(repo_id, @) THEN RemoveFirst(@, repo_id)
                                      ELSE @,
                 ![s].running_count = @ - 1]

\* the calls on a slave, each under the write-lock of the slave
EnqueueBuild(s, uuid) ==
    /\ ~slaves[s].locked
    /\ slaves' = enqueue_build(slaves, s, uuid)
    /\ ret' = [op |-> "enqueue_build", arg |-> uuid,
               val |-> enqueue_build_returns(slaves, s, uuid)]
    /\ UNCHANGED <<repo, cancellers, buildsets, build_queues, is_building, consumers, signals>>

DequeueBuild(s, uuid) ==
    /\ ~slaves[s].locked
    /\ slaves' = dequeue_build(slaves, s, uuid)
    /\ ret' = [op |-> "dequeue_build", arg |-> uuid,
               val |-> dequeue_build_returns(slaves, s, uuid)]
    /\ UNCHANGED <<repo, cancellers, buildsets, build_queues, is_building, consumers, signals>>

AddRunningRepo(s, repo_id) ==
    /\ ~slaves[s].locked
    /\ slaves[s].running_count < MaxRunning
    /\ slaves' = add_running_repo(slaves, s, repo_id)
    /\ ret' = [op |-> "add_running_repo", arg |-> repo_id, val |-> "None"]
    /\ UNCHANGED <<repo, cancellers, buildsets, build_queues, is_building, consumers, signals>>

RmRunningRepo(s, repo_id) ==
    /\ ~slaves[s].locked
    /\ slaves[s].running_count > 0
    /\ slaves' = rm_running_repo(slaves, s, repo_id)
    /\ ret' = [op |-> "rm_running_repo", arg |-> repo_id, val |-> "None"]
    /\ UNCHANGED <<repo, cancellers, buildsets, build_queues, is_building, consumers, signals>>

\* the builds and the repositories the calls are made for
CallUuids == {Uuid(1, 1), Uuid(1, 2), Uuid(2, 1)}
CallRepos == {1, 2}

\* any sequence of the four calls on a fresh slave
NextSlave ==
    \/ \E s \in Slaves : \E uuid \in CallUuids : EnqueueBuild(s, uuid)
    \/ \E s \in Slaves : \E uuid \in CallUuids : DequeueBuild(s, uuid)
    \/ \E s \in Slaves : \E repo_id \in CallRepos : AddRunningRepo(s, repo_id)
    \/ \E s \in Slaves : \E repo_id \in CallRepos : RmRunningRepo(s, repo_id)

\* a bug a reader could make: a slave with a build running still stops
stop_instance_may_proceed_unless_queued(sl) ==
    sl.on_demand /\ sl.queue_count = 0 /\ sl.instance_running

\* Slave.stop_instance goes as far as instance.stop() for an on-demand slave
\* with nothing queued and nothing running whose instance is running
stop_instance_may_proceed(sl) ==
    sl.on_demand /\ sl.queue_count = 0 /\ sl.running_count = 0 /\ sl.instance_running

\* Slave.stop_instance: instance.stop() leaves the instance not running
stop_instance(slvs, s) ==
    IF stop_instance_may_proceed(slvs[s])
    THEN [slvs EXCEPT ![s].instance_running = FALSE]
    ELSE slvs

stop_instance_returns(slvs, s) ==
    IF stop_instance_may_proceed(slvs[s]) THEN "True" ELSE "False"

\* Slave.start_instance: instance.start() unless the instance runs already
start_instance(slvs, s) ==
    IF slvs[s].on_demand THEN [slvs EXCEPT ![s].instance_running = TRUE] ELSE slvs

start_instance_returns(slvs, s) ==
    IF slvs[s].on_demand THEN "ip" ELSE "False"

\* `stop` records whether instance.stop() was called
StopInstance(s) ==
    /\ slaves' = stop_instance(slaves, s)
    /\ ret' = [op |-> "stop_instance", arg |-> s,
               val |-> stop_instance_returns(slaves, s),
               stop |-> stop_instance_may_proceed(slaves[s])]
    /\ UNCHANGED <<repo, cancellers, buildsets, build_queues, is_building, consumers, signals>>

StartInstance(s) ==
    /\ slaves' = start_instance(slaves, s)
    /\ ret' = [op |-> "start_instance", arg |-> s,
               val |-> start_instance_returns(slaves, s)]
    /\ UNCHANGED <<repo, cancellers, buildsets, build_queues, is_building, consumers, signals>>

\* slaves on demand or not, their instance running or not
InstanceSlaves ==
    {[s \in Slaves |-> [IdleSlaves[s] EXCEPT !.on_demand = od,
                                             !.instance_running = ir]] :
        od \in BOOLEAN, ir \in BOOLEAN}

InitInstance ==
    /\ repo = TheRepo(0, <<>>, Slaves)
    /\ buildsets = <<>>
    /\ build_queues = <<>>
    /\ is_building = FALSE
    /\ slaves \in InstanceSlaves
    /\ consumers = <<>>
    /\ ret = NoRet
    /\ signals = {}
    /\ cancellers = <<>>

\* the queue and running accounting calls with starts and stops in between
NextInstance ==
    \/ \E s \in Slaves : \E uuid \in CallUuids : EnqueueBuild(s, uuid)
    \/ \E s \in Slaves : \E uuid \in CallUuids : DequeueBuild(s, uuid)
    \/ \E s \in Slaves : \E repo_id \in CallRepos : AddRunningRepo(s, repo_id)
    \/ \E s \in Slaves : \E repo_id \in CallRepos : RmRunningRepo(s, repo_id)
    \/ \E s \in Slaves : StartInstance(s)
    \/ \E s \in Slaves : StopInstance(s)

SpecInstance == InitInstance /\ [][NextInstance]_vars

----------------------------------------------------------------------------
(* Slave._process_step_output_info *)

\* the fragments of the output of a step, numbered in the order the worker
\* wrote them; fragment n carries the chunk <<n>>
Fragments == 1..MaxFragments
Chunk(n) == <<n>>
OutputFrames == [uuid : StepUuids, counter : Fragments]

\* Slave._get_step: the position of the step in build.steps, 0 if absent
get_step(build, uuid) ==
    IF \E i \in DOMAIN build.steps : build.steps[i].uuid = uuid
    THEN CHOOSE i \in DOMAIN build.steps : build.steps[i].uuid = uuid
    ELSE 0

\* a bug a reader could make: the cache counts the accepted fragments
cache_time_counted(cache, frame) == [cache EXCEPT ![frame.uuid] = @ + 1]

\* _step_output_cache_time[uuid] after an accepted fragment: the last-seen
\* sequence of the step
cache_time(cache, frame) == [cache EXCEPT ![frame.uuid] = frame.counter]

\* Slave._update_build_step_info accepts a fragment whose counter is above
\* the cached one
fragment_accepted(slvs, s, frame) ==
    frame.counter > slvs[s].step_output_cache_time[frame.uuid]

\* the build with the chunk appended to the output of the step
update_build_step_info(build, frame) ==
    [build EXCEPT !.steps[get_step(build, frame.uuid)].output = @ \o Chunk(frame.counter)]

\* Slave._process_step_output_info of one step_output_info frame of the
\* session of the build, for a step a preceding step_info has materialised
ProcessStepOutputInfo(s, uuid, frame) ==
    LET build == Build_get(buildsets, uuid)
        ok == fragment_accepted(slaves, s, frame)
    IN  /\ BuildExists(buildsets, uuid)
        /\ build.status = RUNNING
        /\ build.slave = s
        /\ get_step(build, frame.uuid) # 0
        /\ ret' = [op |-> "step_output_info", arg |-> uuid, frame |-> frame,
                   val |-> IF ok THEN "True" ELSE "False"]
        /\ slaves' = IF ok
                     THEN [slaves EXCEPT ![s].step_output_cache_time =
                               cache_time(@, frame)]
                     ELSE slaves
        /\ buildsets' = IF ok THEN Build_update(buildsets, update_build_step_info(build, frame))
                        ELSE buildsets
        /\ signals' = IF ok THEN signals \cup {Signal("step-output-arrived", frame.uuid)}
                      ELSE signals
        /\ UNCHANGED <<repo, cancellers, build_queues, is_building, consumers>>

\* a running build on the slave with one or two steps materialised
RunningWithSteps ==
    {<<[NewBuildSet(<<[NewBuild(Uuid(1, 1), "A", 1, <<>>)
                          EXCEPT !.status = RUNNING, !.started = TRUE,
                                 !.slave = "s1", !.steps = st]>>)
          EXCEPT !.status = RUNNING, !.started = TRUE]>> :
        st \in {<<NewStep("x", RUNNING)>>,
                 <<NewStep("x", RUNNING), NewStep("y", RUNNING)>>}}

InitOutput ==
    /\ repo = TheRepo(0, <<>>, Slaves)
    /\ buildsets \in RunningWithSteps
    /\ build_queues = <<>>
    /\ is_building = FALSE
    /\ slaves = IdleSlaves
    /\ consumers = <<>>
    /\ ret = NoRet
    /\ signals = {}
    /\ cancellers = <<>>

\* the fragments arrive in any order, any number of times
NextOutput ==
    \/ \E s \in Slaves : \E frame \in OutputFrames :
           ProcessStepOutputInfo(s, Uuid(1, 1), frame)

SpecOutput == InitOutput /\ [][NextOutput]_vars

----------------------------------------------------------------------------
(* Build.cancel of the Build object obj *)

\* a bug a reader could make: a build being prepared can be cancelled too
cancel_statuses_with_preparing == {PENDING, PREPARING, RUNNING}

\* statuses Build.cancel accepts; any other raises ImpossibleCancellation
cancel_statuses == {PENDING, RUNNING}

\* a pending build with a slave dequeues under the slave's write-lock
CancelMayProceed(slvs, obj) ==
    (obj.status = PENDING /\ obj.slave # NoSlave) => ~slvs[obj.slave].locked

\* the object after cancel(): a pending build becomes cancelled; a running one
\* is left to the worker (slave.cancel_build changes nothing here)
CancelledObject(obj) ==
    IF obj.status = PENDING THEN [obj EXCEPT !.status = CANCELLED] ELSE obj

\* a bug a reader could make: a running build is marked cancelled at once
CancelledStore_running_too(bss, obj) ==
    IF obj.status \in {PENDING, RUNNING}
    THEN Build_update(bss, [obj EXCEPT !.status = CANCELLED])
    ELSE bss

CancelledStore(bss, obj) ==
    IF obj.status = PENDING THEN Build_update(bss, CancelledObject(obj)) ELSE bss

\* a bug a reader could make: the build stays in the queue of its slave
CancelledSlaves_keeps_enqueued(slvs, obj) ==
    IF obj.status = RUNNING /\ obj.slave # NoSlave
    THEN [slvs EXCEPT ![obj.slave].cancel_requests = @ \cup {obj.uuid}]
    ELSE slvs

\* the slaves after cancel(): the slave of a pending build dequeues it, the
\* worker of a running build is sent a cancel_build request
CancelledSlaves(slvs, obj) ==
    IF obj.status = PENDING /\ obj.slave # NoSlave
    THEN dequeue_build(slvs, obj.slave, obj.uuid)
    ELSE IF obj.status = RUNNING /\ obj.slave # NoSlave
    THEN [slvs EXCEPT ![obj.slave].cancel_requests = @ \cup {obj.uuid}]
    ELSE slvs

\* build_cancelled.send, for a build that was pending
CancelledSignals(sigs, obj) ==
    IF obj.status = PENDING THEN sigs \cup {Signal("build-cancelled", obj.uuid)}
    ELSE sigs

\* what cancel() returns, or the exception it raises; `refused` tells whether
\* slave.cancel_build raises (it does for a build without slave)
cancel_result(obj, refused) ==
    IF obj.status \notin cancel_statuses THEN "ImpossibleCancellation"
    ELSE IF obj.status = RUNNING /\ (refused \/ obj.slave = NoSlave) THEN "False"
    ELSE "True"

\* build.cancel() on the build Build.get(uuid) returns; `refused` tells
\* whether the request to the worker raises
Cancel(uuid, refused) ==
    LET obj == Build_get(buildsets, uuid)
    IN  /\ CancelMayProceed(slaves, obj)
        /\ ret' = [op |-> "cancel", arg |-> uuid,
                   val |-> cancel_result(obj, refused), refused |-> refused]
        /\ IF obj.status \notin cancel_statuses
           THEN UNCHANGED <<buildsets, slaves, signals>>
           ELSE /\ buildsets' = CancelledStore(buildsets, obj)
                /\ slaves' = IF obj.status = RUNNING /\ refused THEN slaves
                             ELSE CancelledSlaves(slaves, obj)
                /\ signals' = CancelledSignals(signals, obj)
        /\ UNCHANGED <<repo, cancellers, build_queues, is_building, consumers>>

\* a store holding one buildset of two builds, each in any status, with or
\* without a slave, the slave having any of the two in its queue
CancelStores ==
    {<<NewBuildSet([j \in 1..2 |->
          [NewBuild(Uuid(1, j), <<"A", "B">>[j], j, <<>>)
             EXCEPT !.status = st[j], !.slave = sl[j],
                    !.started = st[j] \in {RUNNING} \cup (TerminalStatuses \ {CANCELLED}),
                    !.finished = st[j] \in TerminalStatuses \ {CANCELLED}]])>> :
        <<st, sl>> \in [1..2 -> STATUSES] \X [1..2 -> Slaves \cup {NoSlave}]}

EnqueuedLists == {<<>>, <<Uuid(1, 1)>>, <<Uuid(1, 2)>>, <<Uuid(1, 1), Uuid(1, 2)>>}

InitCancel ==
    /\ repo = TheRepo(0, <<>>, Slaves)
    /\ buildsets \in CancelStores
    /\ build_queues = <<>>
    /\ is_building = FALSE
    /\ slaves \in {[s \in Slaves |-> [IdleSlaves[s] EXCEPT !.enqueued_builds = q,
                                                          !.queue_count = Len(q)]] :
                       q \in EnqueuedLists}
    /\ consumers = <<>>
    /\ ret = NoRet
    /\ signals = {}
    /\ cancellers = <<>>

NextCancel == \E uuid \in StoredUuids : \E refused \in BOOLEAN : Cancel(uuid, refused)

SpecCancel == InitCancel /\ [][NextCancel]_vars

----------------------------------------------------------------------------
(* BuildManager: adding builds *)

Builder(name, triggered_by) == [name |-> name, triggered_by |-> triggered_by]

\* a bug a reader could make: the lowest number of the store taken for the
\* highest
get_lowest_build_number(bss) ==
    IF AllBuilds(bss) = {} THEN 0
    ELSE CHOOSE n \in {b.number : b \in AllBuilds(bss)} :
             \A b \in AllBuilds(bss) : b.number >= n

\* BuildManager._get_highest_build_number
get_highest_build_number(bss) ==
    IF AllBuilds(bss) = {} THEN 0
    ELSE CHOOSE n \in {b.number : b \in AllBuilds(bss)} :
             \A b \in AllBuilds(bss) : b.number <= n

\* a bug a reader could make: the rules are taken over as configured
handle_build_triggered_by_all(triggered_by, builders) == triggered_by

\* BuildManager._handle_build_triggered_by: the rules on builders of the buildset
handle_build_triggered_by(triggered_by, builders) ==
    SelectSeq(triggered_by,
              LAMBDA rule : \E j \in DOMAIN builders :
                                builders[j].name = rule.builder_name)

\* a consumer task just launched: at `slaves = await repo.slaves`
\* The manager's repository object is the one its executers use: dicts holds
\* the dict objects that are, or were, the value of repository.envvars (each
\* the set of its keys), envvars is the position of the present one, refs
\* the local name `envvars` of the _run_build tasks waiting for the secrets,
\* and sent what slave.build was called with.  In the finally clause of the
\* loop, stopped holds the slaves stop_instance() was called on, and raising
\* tells that an exception is on its way out; returned is what the coroutine
\* returned.
NewConsumer ==
    [pc |-> "start", cur |-> 0, i |-> 0, objs |-> <<>>, builds |-> <<>>,
     queue |-> <<>>, running |-> 0, passes |-> <<>>, runs |-> <<>>,
     dicts |-> <<repo.envvars>>, envvars |-> 1, refs |-> <<>>, sent |-> <<>>,
     stopped |-> {}, raising |-> FALSE, returned |-> ""]

\* the builds add_builds_for_buildset appends to the buildset bsid: one for
\* each builder, numbered from the highest build number of the repository
NewBuilds(bss, bsid, builders) ==
    LET last_build == get_highest_build_number(bss)
    IN  [j \in DOMAIN builders |->
            NewBuild(Uuid(bsid, j), builders[j].name, last_build + j,
                     handle_build_triggered_by(builders[j].triggered_by, builders))]

\* BuildSet.create followed by BuildManager.add_builds_for_buildset(buildset,
\* conf, builders): the builds are numbered and appended, the buildset is
\* queued, and a consumer is launched unless is_building
add_builds_for_buildset(builders) ==
    LET bsid == Len(buildsets) + 1
        builds == NewBuilds(buildsets, bsid, builders)
    IN  /\ buildsets' = Append(buildsets, NewBuildSet(builds))
        /\ build_queues' = Append(build_queues, bsid)
        /\ consumers' = IF ~is_building THEN Append(consumers, NewConsumer)
                        ELSE consumers
        /\ signals' = signals \cup {Signal("buildset-added", bsid)}
        /\ UNCHANGED <<repo, cancellers, is_building, slaves, ret>>

\* a revision arrives: its buildset gets a build for every builder of the conf
AddBuilds ==
    /\ Len(buildsets) < MaxBuildSets
    /\ add_builds_for_buildset(repo.conf)

\* the same for a repository that receives a single buildset
AddBuildsOnce ==
    /\ buildsets = <<>>
    /\ add_builds_for_buildset(repo.conf)

\* BuildManager.cancel_build(uuid): Build.get, then Build.cancel, whose
\* ImpossibleCancellation is logged; when cancel() returns, whatever it
\* returns, build-cancelled is published and the signal is sent
CancelBuild(uuid) ==
    /\ BuildExists(buildsets, uuid)
    /\ LET build == Build_get(buildsets, uuid)
       IN  /\ CancelMayProceed(slaves, build)
           /\ build.status \in cancel_statuses
           /\ buildsets' = CancelledStore(buildsets, build)
           /\ slaves' = CancelledSlaves(slaves, build)
           /\ signals' = signals \cup {Signal("build-cancelled", uuid)}
    /\ UNCHANGED <<repo, cancellers, build_queues, is_building, consumers, ret>>

\* the revisions add_builds is called with: the branch, what
\* revision.create_builds() returns, and whether revision.config is set
Branches == {Master, "release"}
Revisions == [branch : Branches, create_builds : BOOLEAN, config : BOOLEAN]

\* a bug a reader could make: the buildset keeps the status it is created with
NoConfigBuildSet_pending(branch) ==
    [NewBuildSet(<<>>) EXCEPT !.branch = branch]

\* the buildset of a revision without config: BuildSet.create, then
\* buildset.status = BuildSet.NO_CONFIG and save
NoConfigBuildSet(branch) ==
    [NewBuildSet(<<>>) EXCEPT !.status = NO_CONFIG, !.branch = branch]

\* the first step of cancel_previous_pending(buildset), up to the query
NewCanceller(given) == [given |-> given, pc |-> "query", objs |-> <<>>, i |-> 0]

\* BuildManager.add_builds([revision]); only_latest is what
\* repository.notify_only_latest(branch) returns.  A revision that creates no
\* builds is skipped; one without config gets a buildset marked 'no config'
\* and buildset-added is sent; any other gets its builds as in
\* add_builds_for_buildset, and cancel_previous_pending follows if only_latest
add_builds(revision, only_latest) ==
    LET bsid == Len(buildsets) + 1
        builds == NewBuilds(buildsets, bsid, repo.conf)
    IN  /\ Len(buildsets) < MaxBuildSets
        /\ IF ~revision.create_builds
           THEN /\ ret' = [op |-> "add_builds", arg |-> 0, val |-> "skipped"]
                /\ UNCHANGED <<buildsets, build_queues, consumers, signals, cancellers>>
           ELSE IF ~revision.config
           THEN /\ ret' = [op |-> "add_builds", arg |-> bsid, val |-> "no config"]
                /\ buildsets' = Append(buildsets, NoConfigBuildSet(revision.branch))
                /\ signals' = signals \cup {Signal("buildset-added", bsid)}
                /\ UNCHANGED <<build_queues, consumers, cancellers>>
           ELSE /\ ret' = [op |-> "add_builds", arg |-> bsid, val |-> "builds"]
                /\ buildsets' = Append(buildsets,
                       [NewBuildSet(builds) EXCEPT !.branch = revision.branch])
                /\ build_queues' = Append(build_queues, bsid)
                /\ consumers' = IF ~is_building THEN Append(consumers, NewConsumer)
                                ELSE consumers
                /\ signals' = signals \cup {Signal("buildset-added", bsid)}
                /\ cancellers' = IF only_latest
                                 THEN Append(cancellers, NewCanceller(bsid))
                                 ELSE cancellers
        /\ UNCHANGED <<repo, is_building, slaves>>

----------------------------------------------------------------------------
(* BuildManager.get_builders and the builds of a revision *)

\* a build configuration list_builders_from_config raises AttributeError on
BadConfig == "bad config"

\* the configuration of a builder: its name, its rules, and its branches
BuilderConf(name, triggered_by, branches) ==
    [name |-> name, triggered_by |-> triggered_by, branches |-> branches]

\* BuildManager._get_builders_conf: the builders of the conf for the branch
get_builders_conf(conf, branch) ==
    SelectSeq(conf, LAMBDA bconf : branch \in bconf.branches)

\* BuildManager._filter_builders: by include if given, else by exclude
filter_builders(builders_conf, include, exclude) ==
    IF include # {}
    THEN SelectSeq(builders_conf, LAMBDA bconf : bconf.name \in include)
    ELSE IF exclude # {}
    THEN SelectSeq(builders_conf, LAMBDA bconf : bconf.name \notin exclude)
    ELSE builders_conf

\* no branch: builders_fallback of a revision that declares none
NoBranch == ""

\* BuildManager.get_builders(revision, conf, include, exclude): the builders
\* and the branch they come from
get_builders(revision, conf, include, exclude) ==
    IF conf = BadConfig
    THEN [builders |-> <<>>, origin |-> revision.branch]
    ELSE LET first == get_builders_conf(conf, revision.branch)
             fallback == first = <<>> /\ revision.builders_fallback # NoBranch
             builders_conf ==
                 filter_builders(
                     IF fallback THEN get_builders_conf(conf, revision.builders_fallback)
                     ELSE first,
                     include, exclude)
         IN  [builders |-> [j \in DOMAIN builders_conf |->
                               Builder(builders_conf[j].name,
                                       builders_conf[j].triggered_by)],
              origin |-> IF fallback THEN revision.builders_fallback
                         ELSE revision.branch]

\* the builders add_builds_for_buildset uses when called with `given`:
\* `builders = builders or []`, and get_builders(revision, conf) `if not
\* builders`
builders_for_buildset(revision, conf, given) ==
    IF given.builders = <<>> THEN get_builders(revision, conf, {}, {}) ELSE given

\* BuildManager.add_builds([revision]) for a revision with config that
\* creates builds: BuildSet.create, get_builders with the include and exclude
\* lists of the revision, add_builds_for_buildset with these builders
add_builds_of_revision(revision) ==
    LET bsid == Len(buildsets) + 1
        given == get_builders(revision, repo.conf, revision.include, revision.exclude)
        used == builders_for_buildset(revision, repo.conf, given)
        builds == NewBuilds(buildsets, bsid, used.builders)
    IN  /\ Len(buildsets) < MaxBuildSets
        /\ ret' = [op |-> "add_builds_of_revision", arg |-> bsid, val |-> given,
                   revision |-> revision, builders_from |-> used.origin]
        /\ buildsets' = Append(buildsets,
               [NewBuildSet(builds) EXCEPT !.branch = revision.branch])
        /\ build_queues' = Append(build_queues, bsid)
        /\ consumers' = IF ~is_building THEN Append(consumers, NewConsumer)
                        ELSE consumers
        /\ signals' = signals \cup {Signal("buildset-added", bsid)}
        /\ UNCHANGED <<repo, cancellers, is_building, slaves>>

\* revisions with their lists: none, a builder of the conf, every builder of
\* the conf, a name that is no builder
BuilderLists_include == {{}, {"A"}, {"X"}}
BuilderLists_exclude == {{}, {"A"}, {"A", "B"}}
RevisionsOfBuilders ==
    [branch : Branches, builders_fallback : {NoBranch, Master},
     include : BuilderLists_include, exclude : BuilderLists_exclude]

\* builders of the branch master only, B triggered by the success of A
ConfBranched ==
    <<BuilderConf("A", <<>>, {Master}),
      BuilderConf("B", <<Rule("A", {"success"})>>, {Master})>>

----------------------------------------------------------------------------
(* BuildManager.cancel_previous_pending: the call n *)

\* the query: the buildsets of the branch of `given` created before it that
\* have a pending or a running build
SelectedToCancel(bss, given, i) ==
    /\ i < given
    /\ bss[i].branch = bss[given].branch
    /\ \E j \in DOMAIN bss[i].builds : bss[i].builds[j].status \in cancel_statuses

\* the builds of the selected buildsets from buildset i on, as the query
\* loads them
RECURSIVE BuildsToCancel(_, _, _)
BuildsToCancel(bss, given, i) ==
    IF i > Len(bss) THEN <<>>
    ELSE (IF SelectedToCancel(bss, given, i) THEN bss[i].builds ELSE <<>>)
         \o BuildsToCancel(bss, given, i + 1)

\* the call after the build at position i of the loaded builds
NextToCancel(t) ==
    IF t.i < Len(t.objs) THEN [t EXCEPT !.i = @ + 1] ELSE [t EXCEPT !.pc = "done"]

\* resumes from `await buildset.repository` and runs the query
C_query(n) ==
    LET t == cancellers[n]
        objs == BuildsToCancel(buildsets, t.given, 1)
    IN  /\ t.pc = "query"
        /\ cancellers' = [cancellers EXCEPT ![n] =
               IF objs = <<>> THEN [t EXCEPT !.pc = "done"]
               ELSE [t EXCEPT !.pc = "cancel", !.objs = objs, !.i = 1]]
        /\ UNCHANGED <<repo, buildsets, build_queues, is_building, slaves, consumers,
                       ret, signals>>

\* await build.cancel() for the next loaded build; ImpossibleCancellation is
\* passed over
C_cancel(n) ==
    LET t == cancellers[n]
        obj == t.objs[t.i]
    IN  /\ t.pc = "cancel"
        /\ CancelMayProceed(slaves, obj)
        /\ cancellers' = [cancellers EXCEPT ![n] = NextToCancel(t)]
        /\ IF obj.status \notin cancel_statuses
           THEN UNCHANGED <<buildsets, slaves, signals>>
           ELSE /\ buildsets' = CancelledStore(buildsets, obj)
                /\ slaves' = CancelledSlaves(slaves, obj)
                /\ signals' = CancelledSignals(signals, obj)
        /\ UNCHANGED <<repo, build_queues, is_building, consumers, ret>>

----------------------------------------------------------------------------
(* BuildManager._execute_builds: the consumer task k *)

\* the consumer after `buildset = self.build_queues.popleft()` on queue q: it
\* goes on with the head buildset, or leaves the loop on IndexError.  The
\* tasks of the executer it waited for are not followed any further.
PopLeft(c, q) ==
    IF q = <<>>
    THEN [NewConsumer EXCEPT !.pc = "stop"]
    ELSE [NewConsumer EXCEPT !.pc = "reload", !.cur = Head(q), !.i = 1]

\* the queue and the flag after that popleft (the finally clause clears the
\* flag when the loop is left)
PoppedQueue(q) == IF q = <<>> THEN q ELSE Tail(q)
PoppedBuilding(q) == q # <<>>

\* resumes from `await repo.slaves`: returns without slaves, else sets
\* is_building and pops the first buildset
K_begin(k) ==
    /\ consumers[k].pc = "start"
    /\ IF repo.slaves = {}
       THEN /\ consumers' = [consumers EXCEPT ![k] =
                  [@ EXCEPT !.pc = "done", !.returned = "False"]]
            /\ UNCHANGED <<build_queues, is_building>>
       ELSE /\ consumers' = [consumers EXCEPT ![k] = PopLeft(@, build_queues)]
            /\ build_queues' = PoppedQueue(build_queues)
            /\ is_building' = PoppedBuilding(build_queues)
    /\ UNCHANGED <<repo, cancellers, buildsets, slaves, ret, signals>>

\* build = await type(build).get(build.uuid), for the i-th build of the
\* buildset; a buildset without builds is left for the next one
K_reload(k) ==
    LET c == consumers[k]
        bs == buildsets[c.cur]
    IN  /\ c.pc = "reload"
        /\ IF bs.builds = <<>>
           THEN /\ consumers' = [consumers EXCEPT ![k] = PopLeft(c, build_queues)]
                /\ build_queues' = PoppedQueue(build_queues)
                /\ is_building' = PoppedBuilding(build_queues)
           ELSE /\ consumers' = [consumers EXCEPT ![k] =
                      [c EXCEPT !.objs = Append(@, Build_get(buildsets, bs.builds[c.i].uuid)),
                                !.pc = "setslave"]]
                /\ UNCHANGED <<build_queues, is_building>>
        /\ UNCHANGED <<repo, cancellers, buildsets, slaves, ret, signals>>

\* the slaves of the repository with the smallest queue_count
LeastLoaded == {s \in repo.slaves : \A t \in repo.slaves :
                   slaves[s].queue_count <= slaves[t].queue_count}

\* BuildManager._set_started_for_buildset
set_started_for_buildset(bss, i) ==
    IF bss[i].started THEN bss
    ELSE [bss EXCEPT ![i].started = TRUE, ![i].status = RUNNING]

\* buildset_started.send and the buildset-started notification of
\* _set_started_for_buildset
started_signals(sigs, bss, i) ==
    IF bss[i].started THEN sigs ELSE sigs \cup {Signal("buildset-started", i)}

\* await self._set_slave(build): Build.set_slave writes the whole reloaded
\* object back (Build.update) and enqueues it on the slave; a build that was
\* pending when reloaded is kept.  After the last build: with builds to run
\* the buildset is marked started, without any the next buildset is popped.
K_setslave(k) ==
    LET c == consumers[k]
        bs == buildsets[c.cur]
    IN  /\ c.pc = "setslave"
        /\ \E s \in LeastLoaded :
             LET build == [c.objs[c.i] EXCEPT !.slave = s]
                 builds == IF build.status = PENDING THEN Append(c.builds, c.i)
                           ELSE c.builds
                 stored == Build_update(buildsets, build)
                 c2 == [c EXCEPT !.objs[c.i] = build, !.builds = builds]
             IN  /\ ~slaves[s].locked
                 /\ slaves' = enqueue_build(slaves, s, build.uuid)
                 /\ IF c.i < Len(bs.builds)
                    THEN /\ consumers' = [consumers EXCEPT ![k] =
                               [c2 EXCEPT !.i = c.i + 1, !.pc = "reload"]]
                         /\ buildsets' = stored
                         /\ UNCHANGED <<build_queues, is_building, signals>>
                    ELSE IF builds # <<>>
                    THEN /\ consumers' = [consumers EXCEPT ![k] =
                               [c2 EXCEPT !.pc = "execute"]]
                         /\ buildsets' = set_started_for_buildset(stored, c.cur)
                         /\ signals' = started_signals(signals, stored, c.cur)
                         /\ UNCHANGED <<build_queues, is_building>>
                    ELSE /\ consumers' = [consumers EXCEPT ![k] =
                               PopLeft(c, build_queues)]
                         /\ buildsets' = stored
                         /\ build_queues' = PoppedQueue(build_queues)
                         /\ is_building' = PoppedBuilding(build_queues)
                         /\ UNCHANGED signals
        /\ UNCHANGED <<repo, cancellers, ret>>

\* the first step of an admission pass: the buildset's builds from the first
NewPass == [pc |-> "iter", i |-> 1]

\* executer = BuildExecuter(self.repository, builds); executer.execute() up to
\* its first sleep: the internal queue is a copy of builds, and the first
\* admission pass is scheduled
K_execute(k) ==
    LET c == consumers[k]
    IN  /\ c.pc = "execute"
        /\ consumers' = [consumers EXCEPT ![k] =
               [c EXCEPT !.queue = c.builds, !.running = 0,
                         !.passes = <<NewPass>>, !.runs = <<>>, !.pc = "wait"]]
        /\ UNCHANGED <<repo, cancellers, buildsets, build_queues, is_building, slaves,
                       ret, signals>>

\* BuildManager._set_finished_for_buildset on the reloaded buildset
set_finished_for_buildset(bss, i) ==
    [bss EXCEPT ![i].finished = TRUE, ![i].status = get_status(bss[i].builds)]

\* datetimes and timedeltas: whole seconds and microseconds
SecondsPerDay == 86400
MicrosPerSecond == 1000000
Datetime(s, us) == [s |-> s, us |-> us]

\* finished - started: a timedelta is kept normalised, as days, seconds of
\* the day and microseconds of the second
timedelta(finished, started) ==
    LET borrow == IF finished.us < started.us THEN 1 ELSE 0
        secs == finished.s - started.s - borrow
    IN  [days |-> secs \div SecondsPerDay,
         seconds |-> secs % SecondsPerDay,
         microseconds |-> finished.us - started.us + borrow * MicrosPerSecond]

\* buildset.total_time = int((buildset.finished - started).seconds)
total_time(finished, started) == timedelta(finished, started).seconds

\* BuildManager._set_finished_for_buildset for a buildset started at
\* `started`, when now() is just_now
SetFinishedForBuildset(i, started, just_now) ==
    /\ buildsets[i].started
    /\ ~buildsets[i].finished
    /\ buildsets' = set_finished_for_buildset(buildsets, i)
    /\ signals' = signals \cup {Signal("buildset-finished", i)}
    /\ ret' = [op |-> "set_finished_for_buildset", arg |-> i, started |-> started,
               finished |-> just_now, val |-> total_time(just_now, started)]
    /\ UNCHANGED <<repo, cancellers, build_queues, is_building, slaves, consumers>>

\* execute() finds its internal queue empty and returns; the buildset is
\* marked finished and the next one is popped
K_finish(k) ==
    LET c == consumers[k]
    IN  /\ c.pc = "wait"
        /\ c.queue = <<>>
        /\ buildsets' = set_finished_for_buildset(buildsets, c.cur)
        /\ signals' = signals \cup {Signal("buildset-finished", c.cur)}
        /\ consumers' = [consumers EXCEPT ![k] = PopLeft(c, build_queues)]
        /\ build_queues' = PoppedQueue(build_queues)
        /\ is_building' = PoppedBuilding(build_queues)
        /\ UNCHANGED <<repo, cancellers, slaves, ret>>

\* a bug a reader could make: the slaves are stopped after the loop, not in
\* the finally clause, so an exception skips them
leave_raising_unstopped(c) == [c EXCEPT !.pc = "raised", !.raising = TRUE]

\* the consumer an exception takes out of the loop: the finally clause runs
\* with the exception pending
leave_raising(c) == [c EXCEPT !.pc = "stop", !.raising = TRUE]

\* an awaited call of the loop raises (Build.DoesNotExist from Build.get,
\* DBError from Build.update, the AssertionError of _set_slave, an error of
\* the store in _set_finished_for_buildset): the try statement of the loop
\* has a finally clause and no except clause, so the flag is cleared and the
\* exception ends the task once the slaves are stopped; what is queued stays
\* queued
K_raise(k) ==
    LET c == consumers[k]
    IN  /\ \/ c.pc \in {"reload", "setslave"}
           \/ c.pc = "wait" /\ c.queue = <<>>
        /\ consumers' = [consumers EXCEPT ![k] = leave_raising(c)]
        /\ is_building' = FALSE
        /\ UNCHANGED <<repo, cancellers, buildsets, build_queues, slaves, ret, signals>>

\* the slaves stop_instance() was called on, after the call on s
stop_instances(c, s) == c.stopped \cup {s}

\* the finally clause after is_building = False: await slave.stop_instance()
\* for one more slave of the repository; after the last one the task returns
\* True, or the exception goes on
K_stop(k) ==
    LET c == consumers[k]
    IN  /\ c.pc = "stop"
        /\ \E s \in repo.slaves \ c.stopped :
             LET stopped == stop_instances(c, s)
             IN  /\ slaves' = stop_instance(slaves, s)
                 /\ consumers' = [consumers EXCEPT ![k] =
                        [c EXCEPT !.stopped = stopped,
                                  !.pc = IF stopped # repo.slaves THEN "stop"
                                         ELSE IF c.raising THEN "raised"
                                         ELSE "done",
                                  !.returned = IF stopped = repo.slaves /\ ~c.raising
                                               THEN "True" ELSE ""]]
        /\ UNCHANGED <<repo, cancellers, buildsets, build_queues, is_building, ret, signals>>

----------------------------------------------------------------------------
(* BuildExecuter._execute_builds: the admission pass p of consumer k *)

\* a task created with ensure_future takes its first step before its creator
\* resumes, and before any task that was not already due to resume: `ahead`
\* of a created _run_build task holds the passes that may still take one step
\* before it
PassMayStep(c, p) ==
    \A r \in DOMAIN c.runs : c.runs[r].pc = "created" => p \in c.runs[r].ahead

PassStepped(runs, p) ==
    [r \in DOMAIN runs |->
        IF runs[r].pc = "created" THEN [runs[r] EXCEPT !.ahead = @ \ {p}]
        ELSE runs[r]]

LivePasses(c) == {q \in DOMAIN c.passes : c.passes[q].pc \in {"iter", "cancel", "hqc"}}

\* the pass after the build at position i of self.builds
NextBuild(c, pass) ==
    IF pass.i < Len(c.builds) THEN [pass EXCEPT !.i = @ + 1]
    ELSE [pass EXCEPT !.pc = "hqc"]

\* await self.repository.reload() at the start of a pass: the fields of the
\* repository object are replaced by what the store holds, envvars by a new
\* dict
reload(c, pass) ==
    IF pass.i = 1
    THEN [c EXCEPT !.dicts = Append(@, repo.envvars), !.envvars = Len(c.dicts) + 1]
    ELSE c

\* one iteration of the loop (the first one after the reload of the
\* repository): is_ready2run (which copies the stored status to the object),
\* the limit check, and the launch of _run_build
P_iter(k, p) ==
    LET c == consumers[k]
        pass == c.passes[p]
        pos == c.builds[pass.i]
        ready == is_ready2run(buildsets, c.objs[pos])
        build == [c.objs[pos] EXCEPT
                     !.status = Build_get(buildsets, c.objs[pos].uuid).status]
        parallel == repo.parallel_builds
        limit_ok == IF parallel # 0 THEN c.running < parallel ELSE TRUE
        stepped == PassStepped(c.runs, p)
        c2 == reload([c EXCEPT !.objs[pos] = build], pass)
    IN  /\ c.pc = "wait"
        /\ p \in DOMAIN c.passes
        /\ pass.pc = "iter"
        /\ PassMayStep(c, p)
        /\ consumers' = [consumers EXCEPT ![k] =
             CASE ready = "True" /\ limit_ok ->
                    [c2 EXCEPT !.passes[p] = NextBuild(c, pass),
                               !.runs = Append(stepped,
                                   [pos |-> pos, pc |-> "created",
                                    ahead |-> LivePasses(c) \ {p}])]
               [] ready = "None" ->
                    [c2 EXCEPT !.passes[p] = [pass EXCEPT !.pc = "cancel"],
                               !.runs = stepped]
               [] OTHER ->
                    [c2 EXCEPT !.passes[p] = NextBuild(c, pass),
                               !.runs = stepped]]
        /\ UNCHANGED <<repo, cancellers, buildsets, build_queues, is_building, slaves,
                       ret, signals>>

\* await build.cancel(); self._queue.remove(build), for a build whose rules
\* cannot be met: ImpossibleCancellation, or ValueError when the build has
\* already left the internal queue, ends the pass
P_cancel(k, p) ==
    LET c == consumers[k]
        pass == c.passes[p]
        pos == c.builds[pass.i]
        build == c.objs[pos]
        stepped == PassStepped(c.runs, p)
        dead == [pass EXCEPT !.pc = "dead"]
    IN  /\ c.pc = "wait"
        /\ p \in DOMAIN c.passes
        /\ pass.pc = "cancel"
        /\ PassMayStep(c, p)
        /\ CancelMayProceed(slaves, build)
        /\ IF build.status \notin cancel_statuses
           THEN /\ consumers' = [consumers EXCEPT ![k] =
                      [c EXCEPT !.passes[p] = dead, !.runs = stepped]]
                /\ UNCHANGED <<buildsets, slaves, signals>>
           ELSE /\ buildsets' = CancelledStore(buildsets, build)
                /\ slaves' = CancelledSlaves(slaves, build)
                /\ signals' = CancelledSignals(signals, build)
                /\ consumers' = [consumers EXCEPT ![k] =
                      IF InSeq(pos, c.queue)
                      THEN [c EXCEPT !.objs[pos] = CancelledObject(build),
                                     !.queue = RemoveFirst(@, pos),
                                     !.passes[p] = NextBuild(c, pass),
                                     !.runs = stepped]
                      ELSE [c EXCEPT !.objs[pos] = CancelledObject(build),
                                     !.passes[p] = dead,
                                     !.runs = stepped]]
        /\ UNCHANGED <<repo, cancellers, build_queues, is_building, ret>>

queued_statuses == {PENDING, PREPARING, RUNNING}

\* BuildExecuter._handle_queue_changes: `build in self._queue` compares the
\* reloaded embedded document with the queued objects by their data
handle_queue_changes(c, bss) ==
    LET buildset == bss[get_buildset(bss, c.objs[c.builds[1]].uuid)]
        bad == {pos \in DOMAIN c.objs :
                   \E j \in DOMAIN buildset.builds :
                       /\ buildset.builds[j].status \notin queued_statuses
                       /\ buildset.builds[j] = c.objs[pos]}
    IN  SelectSeq(c.queue, LAMBDA pos : pos \notin bad)

\* the end of the pass: await self._handle_queue_changes()
P_hqc(k, p) ==
    LET c == consumers[k]
    IN  /\ c.pc = "wait"
        /\ p \in DOMAIN c.passes
        /\ c.passes[p].pc = "hqc"
        /\ PassMayStep(c, p)
        /\ consumers' = [consumers EXCEPT ![k] =
               [c EXCEPT !.queue = handle_queue_changes(c, buildsets),
                         !.passes[p] = [pc |-> "done", i |-> 0],
                         !.runs = PassStepped(c.runs, p)]]
        /\ UNCHANGED <<repo, cancellers, buildsets, build_queues, is_building, slaves,
                       ret, signals>>

----------------------------------------------------------------------------
(* BuildExecuter._run_build: the task r of consumer k, and the slave's build
   session inside it *)

\* the tasks that were launched and have not finished
ActiveRuns(c) ==
    {r \in DOMAIN c.runs : c.runs[r].pc \in {"created", "starting", "stream"}}

\* the finally clause and what follows it: the build leaves the internal
\* queue, _running is decremented and a follow-up pass is scheduled; the
\* ValueError of a build that has already left the queue ends the task before
\* the decrement
Finally(c, r) ==
    LET pos == c.runs[r].pos
    IN  IF InSeq(pos, c.queue)
        THEN [c EXCEPT !.queue = RemoveFirst(@, pos),
                       !.running = @ - 1,
                       !.runs[r] = [pos |-> pos, pc |-> "done", ahead |-> {}],
                       !.passes = Append(@, NewPass)]
        ELSE [c EXCEPT !.runs[r] = [pos |-> pos, pc |-> "dead", ahead |-> {}]]

\* the first step of the task: self._running += 1
R_start(k, r) ==
    LET c == consumers[k]
    IN  /\ c.pc = "wait"
        /\ r \in DOMAIN c.runs
        /\ c.runs[r].pc = "created"
        /\ consumers' = [consumers EXCEPT ![k] =
               [c EXCEPT !.running = @ + 1,
                         !.runs[r] = [@ EXCEPT !.pc = "starting", !.ahead = {}]]]
        /\ UNCHANGED <<repo, cancellers, buildsets, build_queues, is_building, slaves,
                       ret, signals>>

\* Slave.build: the write-lock of the slave is acquired and the build is
\* marked preparing
R_prepare(k, r) ==
    LET c == consumers[k]
        pos == c.runs[r].pos
        build == [c.objs[pos] EXCEPT !.status = PREPARING]
    IN  /\ c.pc = "wait"
        /\ r \in DOMAIN c.runs
        /\ c.runs[r].pc = "starting"
        /\ ~slaves[build.slave].locked
        /\ slaves' = [slaves EXCEPT ![build.slave].locked = TRUE]
        /\ buildsets' = Build_update(buildsets, build)
        /\ consumers' = [consumers EXCEPT ![k] =
               [c EXCEPT !.objs[pos] = build, !.runs[r].pc = "stream"]]
        /\ UNCHANGED <<repo, cancellers, build_queues, is_building, ret, signals>>

\* the statuses the worker can report next for a build in status st: running
\* once, then one status a build ends with
NextReported(st) ==
    IF st = PREPARING THEN {RUNNING} \cup TerminalStatuses
    ELSE IF st = RUNNING THEN TerminalStatuses
    ELSE {}

\* the build after Slave._process_build_info of a frame carrying status st
process_build_info(obj, st) ==
    [obj EXCEPT !.status = st,
                !.started = @ \/ st = RUNNING,
                !.finished = @ \/ st \in TerminalStatuses]

\* build-started for the first running frame, build-finished for the first
\* frame with a status a build ends with
build_info_signals(sigs, obj, st) ==
    IF st = RUNNING /\ ~obj.started
    THEN sigs \cup {Signal("build-started", obj.uuid)}
    ELSE IF st \in TerminalStatuses /\ ~obj.finished
    THEN sigs \cup {Signal("build-finished", obj.uuid)}
    ELSE sigs

\* Slave._process_build_info of a build_info frame carrying status st
R_frame(k, r, st) ==
    LET c == consumers[k]
        pos == c.runs[r].pos
        build == process_build_info(c.objs[pos], st)
    IN  /\ c.pc = "wait"
        /\ r \in DOMAIN c.runs
        /\ c.runs[r].pc = "stream"
        /\ st \in NextReported(c.objs[pos].status)
        /\ buildsets' = Build_update(buildsets, build)
        /\ signals' = build_info_signals(signals, c.objs[pos], st)
        /\ consumers' = [consumers EXCEPT ![k] = [c EXCEPT !.objs[pos] = build]]
        /\ UNCHANGED <<repo, cancellers, build_queues, is_building, slaves, ret>>

\* the stream ends (BuildClient.build leaves its loop on an empty response):
\* the lock is released, Slave.build returns, and the finally clause runs
R_end(k, r) ==
    LET c == consumers[k]
        pos == c.runs[r].pos
    IN  /\ c.pc = "wait"
        /\ r \in DOMAIN c.runs
        /\ c.runs[r].pc = "stream"
        /\ slaves' = [slaves EXCEPT ![c.objs[pos].slave].locked = FALSE]
        /\ consumers' = [consumers EXCEPT ![k] = Finally(c, r)]
        /\ UNCHANGED <<repo, cancellers, buildsets, build_queues, is_building, ret, signals>>

\* the traceback, the output of the step set_unknown_exception appends
Traceback == <<0>>
ExceptionStep == [uuid |-> "exception", status |-> EXCEPTION, output |-> Traceback]

\* a bug a reader could make: the timestamps are left as they are
set_unknown_exception_status_only(obj) ==
    [obj EXCEPT !.status = EXCEPTION, !.steps = Append(@, ExceptionStep)]

\* Build.set_unknown_exception: the status, the timestamps left unset, and
\* the step with the traceback
set_unknown_exception(obj) ==
    [obj EXCEPT !.status = EXCEPTION, !.started = TRUE, !.finished = TRUE,
                !.steps = Append(@, ExceptionStep)]

\* an exception inside the session (a timeout, a client error): the lock is
\* released, Build.set_unknown_exception marks the build exception, and the
\* finally clause runs
R_exception(k, r) ==
    LET c == consumers[k]
        pos == c.runs[r].pos
        build == set_unknown_exception(c.objs[pos])
    IN  /\ c.pc = "wait"
        /\ r \in DOMAIN c.runs
        /\ c.runs[r].pc = "stream"
        /\ slaves' = [slaves EXCEPT ![build.slave].locked = FALSE]
        /\ buildsets' = Build_update(buildsets, build)
        /\ consumers' = [consumers EXCEPT ![k] =
               Finally([c EXCEPT !.objs[pos] = build], r)]
        /\ UNCHANGED <<repo, cancellers, build_queues, is_building, ret, signals>>

----------------------------------------------------------------------------
(* BuildExecuter._run_build: the envvars of the task r of consumer k *)

\* the task holds a reference to a dict, or has called slave.build
HasRef(c, r) == \E i \in DOMAIN c.refs : c.refs[i].run = r
WasSent(c, r) == \E i \in DOMAIN c.sent : c.sent[i].run = r
RefOf(c, r) == (CHOOSE ref \in {c.refs[i] : i \in DOMAIN c.refs} : ref.run = r).dict

\* slave.build(build, **envvars): the keyword arguments are the items the
\* dict holds when the call is made
Dispatch(c, r, ok, envvars) ==
    [run |-> r, pos |-> c.runs[r].pos, secrets_ok |-> ok, envvars |-> envvars]

\* resumes from `slave = await build.slave`: envvars = self.repository.envvars
\* names the dict of the repository object; an external build is dispatched
\* with it, any other build awaits the secrets first
R_envvars(k, r) ==
    LET c == consumers[k]
        build == c.objs[c.runs[r].pos]
    IN  /\ c.pc = "wait"
        /\ r \in DOMAIN c.runs
        /\ c.runs[r].pc = "starting"
        /\ ~HasRef(c, r)
        /\ ~WasSent(c, r)
        /\ consumers' = [consumers EXCEPT ![k] =
               IF build.external
               THEN [c EXCEPT !.sent = Append(@, Dispatch(c, r, FALSE, c.dicts[c.envvars]))]
               ELSE [c EXCEPT !.refs = Append(@, [run |-> r, dict |-> c.envvars])]]
        /\ UNCHANGED <<repo, cancellers, buildsets, build_queues, is_building, slaves,
                       ret, signals>>

\* envvars.update(secrets): the dict the name refers to is changed in place
envvars_update(dicts, ref, secrets) == [dicts EXCEPT ![ref] = @ \cup secrets]

\* resumes from `await self.repository.get_secrets()`, which returned the
\* secrets (ok) or raised: secrets = {} then; the dict is updated and the build
\* dispatched
R_secrets(k, r, ok) ==
    LET c == consumers[k]
        ref == RefOf(c, r)
        secrets == IF ok THEN Secrets ELSE {}
    IN  /\ c.pc = "wait"
        /\ r \in DOMAIN c.runs
        /\ c.runs[r].pc = "starting"
        /\ HasRef(c, r)
        /\ ~WasSent(c, r)
        /\ consumers' = [consumers EXCEPT ![k] =
               [c EXCEPT !.dicts = envvars_update(c.dicts, ref, secrets),
                         !.sent = Append(@, Dispatch(c, r, ok,
                                             c.dicts[ref] \cup secrets))]]
        /\ UNCHANGED <<repo, cancellers, buildsets, build_queues, is_building, slaves,
                       ret, signals>>

\* a stored buildset of two builds, each with or without the info of an
\* external revision, queued for a consumer that has not begun
ExternalBuildSets ==
    {NewBuildSet(<<[NewBuild(Uuid(1, 1), "A", 1, <<>>) EXCEPT !.external = e[1]],
                   [NewBuild(Uuid(1, 2), "B", 2, <<>>) EXCEPT !.external = e[2]]>>) :
        e \in [1..2 -> BOOLEAN]}

InitSecrets ==
    /\ repo = TheRepo(0, <<>>, Slaves)
    /\ buildsets \in {<<bs>> : bs \in ExternalBuildSets}
    /\ build_queues = <<1>>
    /\ is_building = FALSE
    /\ slaves = IdleSlaves
    /\ consumers = <<NewConsumer>>
    /\ ret = NoRet
    /\ signals = {Signal("buildset-added", 1)}
    /\ cancellers = <<>>

\* Slave.build is entered once the envvars are there
NextSecrets ==
    \/ \E k \in DOMAIN consumers : K_begin(k)
    \/ \E k \in DOMAIN consumers : K_reload(k)
    \/ \E k \in DOMAIN consumers : K_setslave(k)
    \/ \E k \in DOMAIN consumers : K_execute(k)
    \/ \E k \in DOMAIN consumers : K_finish(k)
    \/ \E k \in DOMAIN consumers : K_stop(k)
    \/ \E k \in DOMAIN consumers : \E p \in DOMAIN consumers[k].passes : P_iter(k, p)
    \/ \E k \in DOMAIN consumers : \E p \in DOMAIN consumers[k].passes : P_hqc(k, p)
    \/ \E k \in DOMAIN consumers : \E r \in DOMAIN consumers[k].runs : R_start(k, r)
    \/ \E k \in DOMAIN consumers : \E r \in DOMAIN consumers[k].runs : R_envvars(k, r)
    \/ \E k \in DOMAIN consumers : \E r \in DOMAIN consumers[k].runs :
          \E ok \in BOOLEAN : R_secrets(k, r, ok)
    \/ \E k \in DOMAIN consumers : \E r \in DOMAIN consumers[k].runs :
          WasSent(consumers[k], r) /\ R_prepare(k, r)
    \/ \E k \in DOMAIN consumers : \E r \in DOMAIN consumers[k].runs :
          R_frame(k, r, "success")
    \/ \E k \in DOMAIN consumers : \E r \in DOMAIN consumers[k].runs : R_end(k, r)

SpecSecrets == InitSecrets /\ [][NextSecrets]_vars

----------------------------------------------------------------------------
(* Build.update and the stream processing functions on a Build object whose
   build may be missing from the store *)

\* the result of qs.update(set__builds__S=self): the buildsets matched
update_result(bss, build) ==
    Cardinality({i \in DOMAIN bss :
                    \E j \in DOMAIN bss[i].builds : bss[i].builds[j].uuid = build.uuid})

\* the uuid of a Build object that is in no buildset
GoneUuid == Uuid(3, 1)

\* the Build objects update() is called on: a stored build or one that is in
\* no buildset, in any status
UpdateUuids == {Uuid(1, 1), Uuid(1, 2), GoneUuid}
UpdateStatuses == {RUNNING, "fail"}

\* Build.update
BuildUpdate(obj) ==
    /\ ret' = [op |-> "update", arg |-> obj.uuid, obj |-> obj,
               val |-> IF update_result(buildsets, obj) = 0 THEN "DBError"
                       ELSE "updated"]
    /\ buildsets' = IF update_result(buildsets, obj) = 0 THEN buildsets
                    ELSE Build_update(buildsets, obj)
    /\ UNCHANGED <<repo, cancellers, build_queues, is_building, slaves, consumers, signals>>

\* Slave._process_build_info on the Build object of uuid: false on DBError
ProcessBuildInfo(uuid, st) ==
    LET obj == LocalObject(uuid)
        build == process_build_info(obj, st)
        found == update_result(buildsets, build) # 0
    IN  /\ ret' = [op |-> "build_info", arg |-> uuid, obj |-> build,
                   val |-> IF found THEN "True" ELSE "False"]
        /\ buildsets' = IF found THEN Build_update(buildsets, build) ELSE buildsets
        /\ signals' = IF found THEN build_info_signals(signals, obj, st) ELSE signals
        /\ UNCHANGED <<repo, cancellers, build_queues, is_building, slaves, consumers>>

\* a step_info frame: the uuid and the status of a step
StepInfos == [uuid : {"x"}, status : {RUNNING, "success"}]

\* a bug a reader could make: every frame appends a step
process_step_info_appends(obj, info) ==
    [obj EXCEPT !.steps = Append(@, NewStep(info.uuid, info.status))]

\* the build after _process_step_info: a step with the uuid of the frame takes
\* the fields of the frame, otherwise a new BuildStep is appended
process_step_info(obj, info) ==
    IF get_step(obj, info.uuid) # 0
    THEN [obj EXCEPT !.steps[get_step(obj, info.uuid)].status = info.status]
    ELSE [obj EXCEPT !.steps = Append(@, NewStep(info.uuid, info.status))]

\* step-started for a step that is new, step-finished for a status a step
\* ends with
step_info_signals(sigs, obj, info) ==
    IF get_step(obj, info.uuid) = 0
    THEN sigs \cup {Signal("step-started", info.uuid)}
    ELSE IF info.status \in TerminalStatuses
    THEN sigs \cup {Signal("step-finished", info.uuid)}
    ELSE sigs

\* Slave._process_step_info on the Build object of uuid: false on DBError
ProcessStepInfo(uuid, info) ==
    LET obj == LocalObject(uuid)
        build == process_step_info(obj, info)
        found == update_result(buildsets, build) # 0
    IN  /\ ret' = [op |-> "step_info", arg |-> uuid, obj |-> build,
                   val |-> IF found THEN "True" ELSE "False"]
        /\ buildsets' = IF found THEN Build_update(buildsets, build) ELSE buildsets
        /\ signals' = IF found THEN step_info_signals(signals, obj, info) ELSE signals
        /\ UNCHANGED <<repo, cancellers, build_queues, is_building, slaves, consumers>>

\* two buildsets, of two builds and of one; the calls are made for the
\* builds of the first
InitUpdate ==
    /\ repo = TheRepo(0, <<>>, Slaves)
    /\ buildsets = <<NewBuildSet(<<NewBuild(Uuid(1, 1), "A", 1, <<>>),
                                   NewBuild(Uuid(1, 2), "B", 2, <<>>)>>),
                     NewBuildSet(<<NewBuild(Uuid(2, 1), "A", 3, <<>>)>>)>>
    /\ build_queues = <<>>
    /\ is_building = FALSE
    /\ slaves = IdleSlaves
    /\ consumers = <<>>
    /\ ret = NoRet
    /\ signals = {}
    /\ cancellers = <<>>

NextUpdate ==
    \/ \E uuid \in UpdateUuids : \E st \in UpdateStatuses :
           BuildUpdate([LocalObject(uuid) EXCEPT !.status = st])
    \/ \E uuid \in UpdateUuids : \E st \in {RUNNING, "success"} :
           ProcessBuildInfo(uuid, st)
    \/ \E uuid \in UpdateUuids : \E info \in StepInfos : ProcessStepInfo(uuid, info)

SpecUpdate == InitUpdate /\ [][NextUpdate]_vars

\* the step_info frames of a session: either step, started or ended
StepFrames == [uuid : StepUuids, status : {RUNNING, "success", "fail"}]

\* a running build on the slave, without steps or with some materialised
InitSteps ==
    /\ repo = TheRepo(0, <<>>, Slaves)
    /\ buildsets \in RunningWithSteps \cup
          {<<[NewBuildSet(<<[NewBuild(Uuid(1, 1), "A", 1, <<>>)
                                EXCEPT !.status = RUNNING, !.started = TRUE,
                                       !.slave = "s1"]>>)
                EXCEPT !.status = RUNNING, !.started = TRUE]>>}
    /\ build_queues = <<>>
    /\ is_building = FALSE
    /\ slaves = IdleSlaves
    /\ consumers = <<>>
    /\ ret = NoRet
    /\ signals = {}
    /\ cancellers = <<>>

\* the frames of the session of the build arrive one after the other
NextSteps ==
    \/ \E info \in StepFrames : ProcessStepInfo(Uuid(1, 1), info)

SpecSteps == InitSteps /\ [][NextSteps]_vars

----------------------------------------------------------------------------
(* Repositories and specifications *)

\* scenario B: B is triggered by the success of A
ConfTriggered == <<Builder("A", <<>>), Builder("B", <<Rule("A", {"success"})>>)>>
\* two builders without rules
ConfPlain == <<Builder("A", <<>>), Builder("B", <<>>)>>
\* a single builder
ConfSingle == <<Builder("A", <<>>)>>

\* an empty store, no buildset queued, no task
InitEmpty(repos) ==
    /\ repo \in repos
    /\ buildsets = <<>>
    /\ build_queues = <<>>
    /\ is_building = FALSE
    /\ slaves = IdleSlaves
    /\ consumers = <<>>
    /\ ret = NoRet
    /\ signals = {}
    /\ cancellers = <<>>


\* scenario B without a cap, and both configurations with a cap of one
Repos ==
    {TheRepo(0, ConfTriggered, Slaves), TheRepo(1, ConfTriggered, Slaves),
     TheRepo(1, ConfPlain, Slaves)}

\* a repository that receives one buildset: the consumer, the admission
\* passes and the _run_build tasks of its executer
NextExecute ==
    \/ AddBuildsOnce
    \/ \E k \in DOMAIN consumers : K_begin(k)
    \/ \E k \in DOMAIN consumers : K_reload(k)
    \/ \E k \in DOMAIN consumers : K_setslave(k)
    \/ \E k \in DOMAIN consumers : K_execute(k)
    \/ \E k \in DOMAIN consumers : K_finish(k)
    \/ \E k \in DOMAIN consumers : K_stop(k)
    \/ \E k \in DOMAIN consumers : \E p \in DOMAIN consumers[k].passes : P_iter(k, p)
    \/ \E k \in DOMAIN consumers : \E p \in DOMAIN consumers[k].passes : P_cancel(k, p)
    \/ \E k \in DOMAIN consumers : \E p \in DOMAIN consumers[k].passes : P_hqc(k, p)
    \/ \E k \in DOMAIN consumers : \E r \in DOMAIN consumers[k].runs : R_start(k, r)
    \/ \E k \in DOMAIN consumers : \E r \in DOMAIN consumers[k].runs : R_prepare(k, r)
    \/ \E k \in DOMAIN consumers : \E r \in DOMAIN consumers[k].runs :
          \E st \in STATUSES : R_frame(k, r, st)
    \/ \E k \in DOMAIN consumers : \E r \in DOMAIN consumers[k].runs : R_exception(k, r)
    \/ \E k \in DOMAIN consumers : \E r \in DOMAIN consumers[k].runs : R_end(k, r)

SpecExecute == InitEmpty(Repos) /\ [][NextExecute]_vars

\* the worker of scenario A: it reports a build running and then success
ScenarioA_frame(k, r, st) ==
    /\ r \in DOMAIN consumers[k].runs
    /\ st = IF consumers[k].objs[consumers[k].runs[r].pos].status = RUNNING
            THEN "success" ELSE RUNNING
    /\ R_frame(k, r, st)

\* and it ends the stream after it has reported success
ScenarioA_end(k, r) ==
    /\ r \in DOMAIN consumers[k].runs
    /\ consumers[k].objs[consumers[k].runs[r].pos].status = "success"
    /\ R_end(k, r)

\* scenario A: one revision for the builders [A, B], a worker that delivers
\* every frame and no failure of the session
NextScenarioA ==
    \/ AddBuildsOnce
    \/ \E k \in DOMAIN consumers : K_begin(k)
    \/ \E k \in DOMAIN consumers : K_reload(k)
    \/ \E k \in DOMAIN consumers : K_setslave(k)
    \/ \E k \in DOMAIN consumers : K_execute(k)
    \/ \E k \in DOMAIN consumers : K_finish(k)
    \/ \E k \in DOMAIN consumers : K_stop(k)
    \/ \E k \in DOMAIN consumers : \E p \in DOMAIN consumers[k].passes : P_iter(k, p)
    \/ \E k \in DOMAIN consumers : \E p \in DOMAIN consumers[k].passes : P_hqc(k, p)
    \/ \E k \in DOMAIN consumers : \E r \in DOMAIN consumers[k].runs : R_start(k, r)
    \/ \E k \in DOMAIN consumers : \E r \in DOMAIN consumers[k].runs : R_prepare(k, r)
    \/ \E k \in DOMAIN consumers : \E r \in DOMAIN consumers[k].runs :
          \E st \in STATUSES : ScenarioA_frame(k, r, st)
    \/ \E k \in DOMAIN consumers : \E r \in DOMAIN consumers[k].runs : ScenarioA_end(k, r)

SpecScenarioA ==
    InitEmpty({TheRepo(0, ConfPlain, Slaves), TheRepo(1, ConfPlain, Slaves)})
    /\ [][NextScenarioA]_vars

\* scenario B with cancel requests of the user
ReposTriggered ==
    {TheRepo(0, ConfTriggered, Slaves), TheRepo(1, ConfTriggered, Slaves)}

Next ==
    \/ AddBuildsOnce
    \/ \E uuid \in StoredUuids : CancelBuild(uuid)
    \/ \E k \in DOMAIN consumers : K_begin(k)
    \/ \E k \in DOMAIN consumers : K_reload(k)
    \/ \E k \in DOMAIN consumers : K_setslave(k)
    \/ \E k \in DOMAIN consumers : K_execute(k)
    \/ \E k \in DOMAIN consumers : K_finish(k)
    \/ \E k \in DOMAIN consumers : K_stop(k)
    \/ \E k \in DOMAIN consumers : \E p \in DOMAIN consumers[k].passes : P_iter(k, p)
    \/ \E k \in DOMAIN consumers : \E p \in DOMAIN consumers[k].passes : P_cancel(k, p)
    \/ \E k \in DOMAIN consumers : \E p \in DOMAIN consumers[k].passes : P_hqc(k, p)
    \/ \E k \in DOMAIN consumers : \E r \in DOMAIN consumers[k].runs : R_start(k, r)
    \/ \E k \in DOMAIN consumers : \E r \in DOMAIN consumers[k].runs : R_prepare(k, r)
    \/ \E k \in DOMAIN consumers : \E r \in DOMAIN consumers[k].runs :
          \E st \in STATUSES : R_frame(k, r, st)
    \/ \E k \in DOMAIN consumers : \E r \in DOMAIN consumers[k].runs : R_exception(k, r)
    \/ \E k \in DOMAIN consumers : \E r \in DOMAIN consumers[k].runs : R_end(k, r)

Spec == InitEmpty(ReposTriggered) /\ [][Next]_vars

\* a repository of one builder that receives several buildsets; with no
\* trigger rule no pass ever cancels a build
NextQueue ==
    \/ AddBuilds
    \/ \E k \in DOMAIN consumers : K_begin(k)
    \/ \E k \in DOMAIN consumers : K_reload(k)
    \/ \E k \in DOMAIN consumers : K_setslave(k)
    \/ \E k \in DOMAIN consumers : K_execute(k)
    \/ \E k \in DOMAIN consumers : K_finish(k)
    \/ \E k \in DOMAIN consumers : K_stop(k)
    \/ \E k \in DOMAIN consumers : \E p \in DOMAIN consumers[k].passes : P_iter(k, p)
    \/ \E k \in DOMAIN consumers : \E p \in DOMAIN consumers[k].passes : P_hqc(k, p)
    \/ \E k \in DOMAIN consumers : \E r \in DOMAIN consumers[k].runs : R_start(k, r)
    \/ \E k \in DOMAIN consumers : \E r \in DOMAIN consumers[k].runs : R_prepare(k, r)
    \/ \E k \in DOMAIN consumers : \E r \in DOMAIN consumers[k].runs :
          \E st \in STATUSES : R_frame(k, r, st)
    \/ \E k \in DOMAIN consumers : \E r \in DOMAIN consumers[k].runs : R_exception(k, r)
    \/ \E k \in DOMAIN consumers : \E r \in DOMAIN consumers[k].runs : R_end(k, r)

SpecQueue == InitEmpty({TheRepo(0, ConfSingle, Slaves)}) /\ [][NextQueue]_vars

\* BuildSet.objects(builds__status=PENDING, repository=...).to_list(): the
\* buildsets holding a pending build, in the order of the store
RECURSIVE PendingBuildSets(_, _)
PendingBuildSets(bss, i) ==
    IF i > Len(bss) THEN <<>>
    ELSE (IF \E j \in DOMAIN bss[i].builds : bss[i].builds[j].status = PENDING
          THEN <<i>> ELSE <<>>) \o PendingBuildSets(bss, i + 1)

\* the loop of start_pending over these buildsets: one is appended, and a
\* consumer launched, if the queue is empty and the repository is not
\* building when its turn comes; the pair of the queue and the consumers
RECURSIVE start_pending(_, _, _)
start_pending(pending, q, ks) ==
    IF pending = <<>> THEN <<q, ks>>
    ELSE IF q = <<>> /\ ~is_building
         THEN start_pending(Tail(pending), Append(q, Head(pending)),
                            Append(ks, NewConsumer))
         ELSE start_pending(Tail(pending), q, ks)

\* BuildManager.start_pending, from the result of its query on
StartPending ==
    LET r == start_pending(PendingBuildSets(buildsets, 1), build_queues, consumers)
    IN  /\ build_queues' = r[1]
        /\ consumers' = r[2]
        /\ ret' = [op |-> "start_pending", arg |-> 0, val |-> "None"]
        /\ UNCHANGED <<repo, cancellers, buildsets, is_building, slaves, signals>>

\* the store when the process starts: buildsets of one build that is
\* pending or was built
PendingStores ==
    UNION {[1..n -> {NewBuildSet(<<NewBuild(Uuid(1, 1), "A", 1, <<>>)>>),
                     [NewBuildSet(<<[NewBuild(Uuid(1, 1), "A", 1, <<>>)
                                       EXCEPT !.status = "success", !.started = TRUE,
                                              !.finished = TRUE]>>)
                         EXCEPT !.status = "success", !.started = TRUE,
                                !.finished = TRUE]}] :
             n \in 1..MaxBuildSets}

\* the i-th buildset of the store holds the build Uuid(i, 1), numbered i
Renumbered(bss) ==
    [i \in DOMAIN bss |->
        [bss[i] EXCEPT !.builds = <<[bss[i].builds[1] EXCEPT !.uuid = Uuid(i, 1),
                                                             !.number = i]>>]]

InitPending ==
    /\ repo = TheRepo(0, ConfSingle, Slaves)
    /\ buildsets \in {Renumbered(bss) : bss \in PendingStores}
    /\ build_queues = <<>>
    /\ is_building = FALSE
    /\ slaves = IdleSlaves
    /\ consumers = <<>>
    /\ ret = NoRet
    /\ signals = {}
    /\ cancellers = <<>>

\* start_pending on such a store, and the consumers it launches
NextPending ==
    \/ StartPending
    \/ \E k \in DOMAIN consumers : K_begin(k)
    \/ \E k \in DOMAIN consumers : K_reload(k)
    \/ \E k \in DOMAIN consumers : K_setslave(k)
    \/ \E k \in DOMAIN consumers : K_execute(k)
    \/ \E k \in DOMAIN consumers : K_finish(k)
    \/ \E k \in DOMAIN consumers : K_stop(k)
    \/ \E k \in DOMAIN consumers : \E p \in DOMAIN consumers[k].passes : P_iter(k, p)
    \/ \E k \in DOMAIN consumers : \E p \in DOMAIN consumers[k].passes : P_hqc(k, p)
    \/ \E k \in DOMAIN consumers : \E r \in DOMAIN consumers[k].runs : R_start(k, r)
    \/ \E k \in DOMAIN consumers : \E r \in DOMAIN consumers[k].runs : R_prepare(k, r)
    \/ \E k \in DOMAIN consumers : \E r \in DOMAIN consumers[k].runs :
          \E st \in STATUSES : R_frame(k, r, st)
    \/ \E k \in DOMAIN consumers : \E r \in DOMAIN consumers[k].runs : R_end(k, r)

SpecPending == InitPending /\ [][NextPending]_vars

\* a repository with or without a slave, the slave on demand or not, that
\* receives one buildset and whose consumer can meet an exception
InitLoop ==
    /\ repo \in {TheRepo(0, ConfSingle, Slaves), TheRepo(0, ConfPlain, Slaves),
                 TheRepo(0, ConfSingle, {})}
    /\ buildsets = <<>>
    /\ build_queues = <<>>
    /\ is_building = FALSE
    /\ slaves \in {IdleSlaves,
                   [s \in Slaves |-> [IdleSlaves[s] EXCEPT !.on_demand = TRUE,
                                                          !.instance_running = TRUE]]}
    /\ consumers = <<>>
    /\ ret = NoRet
    /\ signals = {}
    /\ cancellers = <<>>

NextLoop ==
    \/ AddBuildsOnce
    \/ \E k \in DOMAIN consumers : K_begin(k)
    \/ \E k \in DOMAIN consumers : K_reload(k)
    \/ \E k \in DOMAIN consumers : K_setslave(k)
    \/ \E k \in DOMAIN consumers : K_execute(k)
    \/ \E k \in DOMAIN consumers : K_finish(k)
    \/ \E k \in DOMAIN consumers : K_raise(k)
    \/ \E k \in DOMAIN consumers : K_stop(k)
    \/ \E k \in DOMAIN consumers : \E p \in DOMAIN consumers[k].passes : P_iter(k, p)
    \/ \E k \in DOMAIN consumers : \E p \in DOMAIN consumers[k].passes : P_hqc(k, p)
    \/ \E k \in DOMAIN consumers : \E r \in DOMAIN consumers[k].runs : R_start(k, r)
    \/ \E k \in DOMAIN consumers : \E r \in DOMAIN consumers[k].runs : R_prepare(k, r)
    \/ \E k \in DOMAIN consumers : \E r \in DOMAIN consumers[k].runs :
          R_frame(k, r, "success")
    \/ \E k \in DOMAIN consumers : \E r \in DOMAIN consumers[k].runs : R_end(k, r)

SpecLoop == InitLoop /\ [][NextLoop]_vars

\* the moments a buildset starts and finishes at: around the turn of a day
\* and of two
Moments ==
    {Datetime(s, us) : s \in {0, 1, 86399, 86400, 86401, 172800},
                       us \in {0, 500000}}
Before(a, b) == a.s < b.s \/ (a.s = b.s /\ a.us <= b.us)

\* a started buildset whose builds have ended
EndedBuildSets ==
    {[NewBuildSet(<<[NewBuild(Uuid(1, 1), "A", 1, <<>>)
                        EXCEPT !.status = st, !.started = TRUE, !.finished = TRUE,
                               !.slave = "s1"]>>)
        EXCEPT !.status = RUNNING, !.started = TRUE] : st \in {"success", "fail"}}

InitTotalTime ==
    /\ repo = TheRepo(0, ConfSingle, Slaves)
    /\ buildsets \in {<<bs>> : bs \in EndedBuildSets}
    /\ build_queues = <<>>
    /\ is_building = TRUE
    /\ slaves = IdleSlaves
    /\ consumers = <<>>
    /\ ret = NoRet
    /\ signals = {}
    /\ cancellers = <<>>

NextTotalTime ==
    \/ \E started, just_now \in Moments :
           Before(started, just_now) /\ SetFinishedForBuildset(1, started, just_now)

SpecTotalTime == InitTotalTime /\ [][NextTotalTime]_vars

\* the same repository when the calls the consumer awaits can fail
NextFailure ==
    \/ AddBuilds
    \/ \E k \in DOMAIN consumers : K_begin(k)
    \/ \E k \in DOMAIN consumers : K_reload(k)
    \/ \E k \in DOMAIN consumers : K_setslave(k)
    \/ \E k \in DOMAIN consumers : K_execute(k)
    \/ \E k \in DOMAIN consumers : K_finish(k)
    \/ \E k \in DOMAIN consumers : K_raise(k)
    \/ \E k \in DOMAIN consumers : K_stop(k)
    \/ \E k \in DOMAIN consumers : \E p \in DOMAIN consumers[k].passes : P_iter(k, p)
    \/ \E k \in DOMAIN consumers : \E p \in DOMAIN consumers[k].passes : P_hqc(k, p)
    \/ \E k \in DOMAIN consumers : \E r \in DOMAIN consumers[k].runs : R_start(k, r)
    \/ \E k \in DOMAIN consumers : \E r \in DOMAIN consumers[k].runs : R_prepare(k, r)
    \/ \E k \in DOMAIN consumers : \E r \in DOMAIN consumers[k].runs :
          \E st \in STATUSES : R_frame(k, r, st)
    \/ \E k \in DOMAIN consumers : \E r \in DOMAIN consumers[k].runs : R_exception(k, r)
    \/ \E k \in DOMAIN consumers : \E r \in DOMAIN consumers[k].runs : R_end(k, r)

SpecFailure == InitEmpty({TheRepo(0, ConfSingle, Slaves)}) /\ [][NextFailure]_vars

\* revisions arrive on two branches of a repository of two builders while the
\* consumer reloads the queued builds and assigns them slaves; the executer
\* is not followed
NextRevisions ==
    \/ \E revision \in Revisions : \E only_latest \in BOOLEAN :
          add_builds(revision, only_latest)
    \/ \E n \in DOMAIN cancellers : C_query(n)
    \/ \E n \in DOMAIN cancellers : C_cancel(n)
    \/ \E k \in DOMAIN consumers : K_begin(k)
    \/ \E k \in DOMAIN consumers : K_reload(k)
    \/ \E k \in DOMAIN consumers : K_setslave(k)

SpecRevisions == InitEmpty({TheRepo(0, ConfPlain, Slaves)}) /\ [][NextRevisions]_vars

\* revisions with and without config arrive on a repository of one builder
\* that does not cancel the earlier buildsets of a branch
NextNoConfig ==
    \/ \E revision \in Revisions : add_builds(revision, FALSE)
    \/ \E k \in DOMAIN consumers : K_begin(k)
    \/ \E k \in DOMAIN consumers : K_reload(k)
    \/ \E k \in DOMAIN consumers : K_setslave(k)

SpecNoConfig == InitEmpty({TheRepo(0, ConfSingle, Slaves)}) /\ [][NextNoConfig]_vars

\* revisions arrive on a repository whose build configuration is malformed
NextBadConfig ==
    \/ \E revision \in RevisionsOfBuilders : add_builds_of_revision(revision)
    \/ \E k \in DOMAIN consumers : K_begin(k)
    \/ \E k \in DOMAIN consumers : K_reload(k)
    \/ \E k \in DOMAIN consumers : K_stop(k)

SpecBadConfig == InitEmpty({TheRepo(0, BadConfig, Slaves)}) /\ [][NextBadConfig]_vars

\* revisions with include and exclude lists arrive on a repository whose
\* builders are those of the branch master
NextFilter ==
    \/ \E revision \in RevisionsOfBuilders : add_builds_of_revision(revision)
    \/ \E k \in DOMAIN consumers : K_begin(k)
    \/ \E k \in DOMAIN consumers : K_reload(k)
    \/ \E k \in DOMAIN consumers : K_setslave(k)

SpecFilter == InitEmpty({TheRepo(0, ConfBranched, Slaves)}) /\ [][NextFilter]_vars

\* C is triggered by A and B, B by A, all on the branch master
ConfChain ==
    <<BuilderConf("A", <<>>, {Master}),
      BuilderConf("B", <<Rule("A", {"success"})>>, {Master}),
      BuilderConf("C", <<Rule("A", {"success"}), Rule("B", {"success", "fail"})>>,
                  {Master})>>

\* the buildsets of revisions with include and exclude lists, on their own
NextBuilders ==
    \E revision \in RevisionsOfBuilders : add_builds_of_revision(revision)

SpecBuilders == InitEmpty({TheRepo(0, ConfChain, Slaves)}) /\ [][NextBuilders]_vars

\* the calls on a slave alone
SpecSlave == InitEmpty({TheRepo(0, ConfSingle, Slaves)}) /\ [][NextSlave]_vars

\* calls of add_builds_for_buildset alone, each for any of the builders
BuilderLists ==
    {<<>>, <<Builder("A", <<>>)>>, <<Builder("B", <<>>)>>,
     <<Builder("A", <<>>), Builder("B", <<>>)>>,
     <<Builder("A", <<>>), Builder("B", <<>>), Builder("C", <<>>)>>}

AddBuildsFor(builders) ==
    /\ Len(buildsets) < MaxCalls
    /\ add_builds_for_buildset(builders)

NextNumbers == \E builders \in BuilderLists : AddBuildsFor(builders)

SpecNumbers == InitEmpty({TheRepo(0, ConfPlain, Slaves)}) /\ [][NextNumbers]_vars

----------------------------------------------------------------------------
(* C1 *)

\* the priority order the aggregate-status rule states:
\* running > cancelled > exception > fail > warning > success > preparing > pending
C1_Priority ==
    [s \in STATUSES |->
        CASE s = "running" -> 1 [] s = "cancelled" -> 2 [] s = "exception" -> 3
          [] s = "fail" -> 4 [] s = "warning" -> 5 [] s = "success" -> 6
          [] s = "preparing" -> 7 [] s = "pending" -> 8]

\* C1: for every buildset with a non-empty builds list, get_status() is the
\* status of one of its builds, and no build has a status that comes earlier
\* in the priority order; update_status stores exactly that status.
C1_AggregateStatusLaw ==
    \A i \in DOMAIN buildsets :
        LET builds == buildsets[i].builds
            r == get_status(builds)
        IN  builds # <<>> =>
              /\ \E j \in DOMAIN builds : builds[j].status = r
              /\ \A j \in DOMAIN builds : C1_Priority[r] <= C1_Priority[builds[j].status]
              /\ (ret.op = "update_status" /\ ret.arg = i) =>
                     buildsets[i].status = r /\ ret.val = r

\* update_status ran on a buildset with a fail, a cancelled and a success
\* build, and the buildset is cancelled
C1_Witness ==
    /\ ret.op = "update_status"
    /\ buildsets[1].status = "cancelled"
    /\ {buildsets[1].builds[j].status : j \in DOMAIN buildsets[1].builds}
           = {"fail", "cancelled", "success"}

----------------------------------------------------------------------------
(* C3, C4 *)

\* the build is_ready2run was last called on, and its siblings
Asked == LocalObject(ret.arg)
Siblings ==
    LET bs == buildsets[get_buildset(buildsets, ret.arg)].builds
    IN  {bs[j] : j \in {j \in DOMAIN bs : bs[j].uuid # ret.arg}}
AskedRules == {Asked.triggered_by[i] : i \in DOMAIN Asked.triggered_by}
AskedPendingWithRules ==
    /\ ret.op = "is_ready2run"
    /\ BuildExists(buildsets, ret.arg)
    /\ Asked.status = PENDING
    /\ Asked.triggered_by # <<>>

\* C3: for a pending build with triggered_by, is_ready2run returns None if and
\* only if some sibling named by a rule (Bi, Si) has reached a terminal status
\* that is not in Si (so not because such a sibling is preparing or running).
C3_NoneIffTerminalOutsideRule ==
    AskedPendingWithRules =>
        (ret.val = "None" <=>
            \E r \in AskedRules, b \in Siblings :
                /\ b.builder = r.builder_name
                /\ b.status \in TerminalStatuses
                /\ b.status \notin r.statuses)

----------------------------------------------------------------------------
(* C2 *)

\* scenario B has run to the end: the buildset of [A, B], B triggered by the
\* success of A, is marked finished and A is stored as fail
ScenarioB_AFailed ==
    /\ repo.conf = ConfTriggered
    /\ buildsets # <<>>
    /\ buildsets[1].finished
    /\ buildsets[1].builds[1].status = "fail"

\* C2 as stated: in scenario B with A reported fail, the status of the
\* finished buildset is fail.
C2_FinishedStatusFail ==
    ScenarioB_AFailed => buildsets[1].status = "fail"

\* C2 (amended): in scenario B with A reported fail, B is cancelled and the
\* status of the finished buildset is cancelled, which has priority over fail.
C2_FinishedStatusCancelled ==
    ScenarioB_AFailed =>
        /\ buildsets[1].builds[2].status = "cancelled"
        /\ buildsets[1].status = "cancelled"

\* scenario B ended with A fail and B cancelled by the admission pass
C2_Witness ==
    /\ ScenarioB_AFailed
    /\ buildsets[1].builds[2].status = "cancelled"
    /\ buildsets[1].status = "cancelled"
    /\ \E k \in DOMAIN consumers : consumers[k].pc = "done"

----------------------------------------------------------------------------
(* C5 *)

\* C5: with parallel_builds = k > 0 an executer never has more than k
\* _run_build tasks that were launched and have not finished.
C5_ParallelCap ==
    \A k \in DOMAIN consumers :
        repo.parallel_builds > 0 =>
            Cardinality(ActiveRuns(consumers[k])) <= repo.parallel_builds

----------------------------------------------------------------------------
(* C6, C7 *)

\* the consumers that are popping or executing a buildset
BusyConsumers ==
    {k \in DOMAIN consumers :
        consumers[k].pc \in {"reload", "setslave", "execute", "wait"}}

\* C6: at most one consumer is popping or executing a buildset at any time,
\* and is_building is true whenever one is.
C6_SingleConsumer ==
    /\ Cardinality(BusyConsumers) <= 1
    /\ BusyConsumers # {} => is_building

\* C7: a buildset is marked started only after every buildset appended before
\* it has been popped and is no longer being worked on (it was marked
\* finished, or had no pending build).
C7_Fifo ==
    \A i, j \in DOMAIN buildsets :
        (i < j /\ buildsets[j].started) =>
            /\ ~InSeq(i, build_queues)
            /\ \A k \in DOMAIN consumers : consumers[k].cur # i

----------------------------------------------------------------------------
(* C8 *)

\* C8: after any calls of add_builds_for_buildset the numbers of the builds
\* they created are exactly 1..n_total, and no two builds share a number.
C8_BuildNumbers ==
    LET builds == AllBuilds(buildsets)
        n_total == Cardinality({b.uuid : b \in builds})
    IN  /\ {b.number : b \in builds} = 1..n_total
        /\ \A b1, b2 \in builds : b1.number = b2.number => b1.uuid = b2.uuid

\* three calls were made, for two, three and one builders
C8_Witness ==
    /\ Len(buildsets) = 3
    /\ Len(buildsets[1].builds) = 2
    /\ Len(buildsets[2].builds) = 3
    /\ Len(buildsets[3].builds) = 1
    /\ buildsets[3].builds[1].number = 6

----------------------------------------------------------------------------
(* C9, C10 *)

\* C9: once the stored status of a build is fail, success, exception, warning
\* or cancelled, no step changes it.
C9_TerminalSticky ==
    [][\A b \in AllBuilds(buildsets) :
           b.status \in TerminalStatuses =>
               \A b2 \in AllBuilds(buildsets') :
                   b2.uuid = b.uuid => b2.status = b.status]_vars

\* C10: a step that marks a buildset finished leaves every build of it in a
\* status a build ends with.
C10_FinishedOnlyWhenTerminal ==
    [][\A i \in DOMAIN buildsets :
           (~buildsets[i].finished /\ buildsets'[i].finished) =>
               \A j \in DOMAIN buildsets'[i].builds :
                   buildsets'[i].builds[j].status \in TerminalStatuses]_vars

----------------------------------------------------------------------------
(* C11 *)

\* C11: no exception escapes the consumer loop: no _execute_builds task ends
\* by an exception, whatever call it awaits fails, so a buildset that is
\* queued is never left without a consumer by a failure
C11_NoExceptionEscapes ==
    \A k \in DOMAIN consumers : consumers[k].pc # "raised"

----------------------------------------------------------------------------
(* C12 *)

\* the build a cancel() call that has just returned was made on, as it was
\* stored before the call
Cancelling == Build_get(buildsets, ret'.arg)

\* C12: for a build whose status is neither pending nor running (every
\* status a build ends with, and preparing), cancel() raises
\* ImpossibleCancellation and changes nothing: the stored builds, the slaves
\* (enqueued_builds, queue_count) and the signals sent stay as they were
C12_CancelImpossible ==
    [][(ret'.op = "cancel" /\ Cancelling.status \notin {PENDING, RUNNING}) =>
          /\ ret'.val = "ImpossibleCancellation"
          /\ buildsets' = buildsets
          /\ slaves' = slaves
          /\ signals' = signals]_vars

\* cancel() has raised for a build that is being prepared and sits in the
\* queue of its slave
C12_Witness ==
    /\ ret.op = "cancel"
    /\ ret.val = "ImpossibleCancellation"
    /\ LET build == Build_get(buildsets, ret.arg)
       IN  /\ build.status = PREPARING
           /\ build.slave # NoSlave
           /\ InSeq(build.uuid, slaves[build.slave].enqueued_builds)

----------------------------------------------------------------------------
(* C13 *)

\* C13: cancel() on a pending build returns true, and when it returns the
\* uuid is no longer in the enqueued_builds of the assigned slave (if one was
\* assigned), the stored status is cancelled and build-cancelled was sent
C13_CancelPending ==
    [][(ret'.op = "cancel" /\ Cancelling.status = PENDING) =>
          /\ ret'.val = "True"
          /\ Cancelling.slave # NoSlave =>
                 /\ ~InSeq(ret'.arg, slaves'[Cancelling.slave].enqueued_builds)
                 /\ slaves'[Cancelling.slave].queue_count =
                        Len(slaves'[Cancelling.slave].enqueued_builds)
          /\ Build_get(buildsets', ret'.arg).status = CANCELLED
          /\ Signal("build-cancelled", ret'.arg) \in signals']_vars

\* a build with a slave was cancelled while its sibling sits in the queue of
\* the slave
C13_Witness ==
    /\ ret.op = "cancel"
    /\ ret.val = "True"
    /\ LET build == Build_get(buildsets, ret.arg)
       IN  /\ build.status = CANCELLED
           /\ build.slave # NoSlave
           /\ slaves[build.slave].queue_count = 1
           /\ Signal("build-cancelled", build.uuid) \in signals

----------------------------------------------------------------------------
(* C14 *)

\* C14: cancel() on a running build only forwards a cancel_build request to
\* the slave: the stored builds (status, steps) and the queue accounting of
\* every slave stay as they were and no signal is sent; it returns false if
\* the request raises, true otherwise
C14_CancelRunning ==
    [][(ret'.op = "cancel" /\ Cancelling.status = RUNNING) =>
          /\ buildsets' = buildsets
          /\ signals' = signals
          /\ \A s \in Slaves :
                 /\ slaves'[s].enqueued_builds = slaves[s].enqueued_builds
                 /\ slaves'[s].queue_count = slaves[s].queue_count
          /\ IF ret'.refused \/ Cancelling.slave = NoSlave
             THEN ret'.val = "False"
             ELSE /\ ret'.val = "True"
                  /\ ret'.arg \in slaves'[Cancelling.slave].cancel_requests]_vars

\* the request for a running build was delivered, the build still running
\* and still in the queue of its slave
C14_Witness ==
    /\ ret.op = "cancel"
    /\ ret.val = "True"
    /\ LET build == Build_get(buildsets, ret.arg)
       IN  /\ build.status = RUNNING
           /\ ret.arg \in slaves[build.slave].cancel_requests
           /\ InSeq(ret.arg, slaves[build.slave].enqueued_builds)

----------------------------------------------------------------------------
(* C15 *)

\* the buildsets created before the buildset `given`, on its branch
EarlierOnBranch(bss, given) ==
    {i \in DOMAIN bss : i < given /\ bss[i].branch = bss[given].branch}

NoPendingBuild(bs) == \A j \in DOMAIN bs.builds : bs.builds[j].status # PENDING

\* C15: when cancel_previous_pending(buildset) returns, no build of an
\* earlier buildset of the same branch is pending, and while it runs the
\* given buildset, the later ones and those of other branches keep their
\* builds as they are
C15_OnlyNewestPending ==
    [][\A n \in DOMAIN cancellers :
          /\ (cancellers[n].pc # "done" /\ cancellers'[n].pc = "done") =>
                 \A i \in EarlierOnBranch(buildsets', cancellers[n].given) :
                    NoPendingBuild(buildsets'[i])
          /\ (cancellers[n].pc = "cancel" /\ cancellers'[n] # cancellers[n]) =>
                 \A i \in DOMAIN buildsets :
                    i \notin EarlierOnBranch(buildsets, cancellers[n].given) =>
                       buildsets'[i] = buildsets[i]]_vars

----------------------------------------------------------------------------
(* C16 *)

\* C16: for a revision that creates builds and has no config, add_builds
\* stores a buildset with status 'no config' and no builds and sends
\* buildset-added, appends nothing to the queue of the repository and launches
\* no consumer; no consumer ever takes such a buildset
C16_NoConfig ==
    /\ [](\A i \in DOMAIN buildsets : buildsets[i].status = NO_CONFIG =>
             /\ buildsets[i].builds = <<>>
             /\ ~InSeq(i, build_queues)
             /\ \A k \in DOMAIN consumers : consumers[k].cur # i)
    /\ [][(ret'.op = "add_builds" /\ ret'.val = "no config"
              /\ Len(buildsets') > Len(buildsets)) =>
            /\ buildsets'[Len(buildsets')].status = NO_CONFIG
            /\ buildsets'[Len(buildsets')].builds = <<>>
            /\ SubSeq(buildsets', 1, Len(buildsets)) = buildsets
            /\ Signal("buildset-added", Len(buildsets')) \in signals'
            /\ build_queues' = build_queues
            /\ consumers' = consumers
            /\ is_building' = is_building]_vars

\* a revision without config arrived after one with config: its buildset is
\* stored and announced, the queue holds the other one only
C16_Witness ==
    /\ ret.op = "add_builds"
    /\ ret.val = "no config"
    /\ Len(buildsets) = 2
    /\ buildsets[2].status = NO_CONFIG
    /\ buildsets[1].status # NO_CONFIG
    /\ Signal("buildset-added", 2) \in signals

----------------------------------------------------------------------------
(* C17 *)

\* C17: for a revision with builders [A, B] and no earlier buildset the
\* events come in the order buildset-added, buildset-started, build-started
\* of both builds, build-finished of both builds (each after the
\* build-started of its build), buildset-finished; and the buildset, both
\* builds having ended success, is finished with status success
C17_ScenarioA ==
    buildsets # <<>> =>
        LET uuids == {buildsets[1].builds[j].uuid : j \in DOMAIN buildsets[1].builds}
        IN  /\ Signal("buildset-added", 1) \in signals
            /\ \A u \in uuids :
                   /\ Signal("build-started", u) \in signals =>
                          Signal("buildset-started", 1) \in signals
                   /\ Signal("build-finished", u) \in signals =>
                          Signal("build-started", u) \in signals
            /\ Signal("buildset-finished", 1) \in signals =>
                   \A u \in uuids : Signal("build-finished", u) \in signals
            /\ buildsets[1].finished =>
                   /\ Signal("buildset-finished", 1) \in signals
                   /\ buildsets[1].status = "success"

----------------------------------------------------------------------------
(* C18 *)

\* C18: for every slave, after any sequence of enqueue_build, dequeue_build,
\* add_running_repo and rm_running_repo calls, queue_count is the length of
\* enqueued_builds and running_count is the length of running_repos
C18_AccountingParity ==
    \A s \in Slaves :
        /\ slaves[s].queue_count = Len(slaves[s].enqueued_builds)
        /\ slaves[s].running_count = Len(slaves[s].running_repos)

----------------------------------------------------------------------------
(* C19 *)

\* the number of entries of the list s equal to x
Occurrences(s, x) == Cardinality({i \in DOMAIN s : s[i] = x})

\* C19: enqueue_build is idempotent per uuid: a call for a uuid that is
\* already enqueued returns false and changes nothing of the slave, the
\* first call for a uuid returns true and leaves exactly one entry of it
C19_EnqueueIdempotent ==
    [][ret'.op = "enqueue_build" =>
         \A s \in Slaves :
            IF InSeq(ret'.arg, slaves[s].enqueued_builds)
            THEN ret'.val = "False" /\ slaves' = slaves
            ELSE /\ ret'.val = "True"
                 /\ Occurrences(slaves'[s].enqueued_builds, ret'.arg) = 1
                 /\ slaves'[s].queue_count = slaves[s].queue_count + 1]_vars

\* a second call has returned false, the uuid being enqueued once
C19_Witness ==
    /\ ret.op = "enqueue_build"
    /\ ret.val = "False"
    /\ \E s \in Slaves : Occurrences(slaves[s].enqueued_builds, ret.arg) = 1

----------------------------------------------------------------------------
(* C20 *)

\* C20: dequeue_build is the inverse of enqueue_build: enqueue_build(b)
\* followed by dequeue_build(b) restores enqueued_builds and queue_count
\* (empty and 0 on a fresh slave) and dequeue_build returns true; for a
\* build that is not enqueued it returns false and changes nothing
C20_DequeueInverse ==
    /\ [](\A s \in Slaves : \A b \in CallUuids :
            ~InSeq(b, slaves[s].enqueued_builds) =>
               LET enqueued == enqueue_build(slaves, s, b)
               IN  /\ dequeue_build_returns(enqueued, s, b) = "True"
                   /\ dequeue_build(enqueued, s, b) = slaves)
    /\ [][ret'.op = "dequeue_build" =>
            \A s \in Slaves :
               IF InSeq(ret'.arg, slaves[s].enqueued_builds)
               THEN ret'.val = "True"
               ELSE ret'.val = "False" /\ slaves' = slaves]_vars

\* scenario D: on a fresh slave b was enqueued and then dequeued
C20_Witness ==
    /\ ret.op = "dequeue_build"
    /\ ret.val = "True"
    /\ \A s \in Slaves : /\ slaves[s].enqueued_builds = <<>>
                         /\ slaves[s].queue_count = 0

----------------------------------------------------------------------------
(* C21 *)

\* C21: stop_instance returns true exactly when the slave is on demand, has
\* nothing queued and nothing running and its instance is running, and then
\* the instance has been stopped; in every other case it returns false, the
\* instance's stop is not called and the instance is as it was
C21_StopInstance ==
    [][ret'.op = "stop_instance" =>
        LET sl == slaves[ret'.arg]
            idle == sl.on_demand /\ ~(sl.queue_count > 0 \/ sl.running_count > 0)
                    /\ sl.instance_running
        IN  /\ ret'.val = (IF idle THEN "True" ELSE "False")
            /\ ret'.val = "True" => ret'.stop /\ ~slaves'[ret'.arg].instance_running
            /\ ret'.val = "False" => ~ret'.stop /\ slaves' = slaves]_vars

\* a busy on-demand slave with a running instance was asked to stop
C21_Witness ==
    /\ ret.op = "stop_instance"
    /\ ret.val = "False"
    /\ slaves[ret.arg].on_demand
    /\ slaves[ret.arg].instance_running
    /\ slaves[ret.arg].running_count > 0
    /\ slaves[ret.arg].queue_count = 0

----------------------------------------------------------------------------
(* C22 *)

StepsOf(uuid) == Build_get(buildsets, uuid).steps

\* the chunks of fragments of increasing counters, each once
InSequenceOrder(output) ==
    \A i, j \in DOMAIN output : i < j => output[i] < output[j]

----------------------------------------------------------------------------
(* C23 *)

\* the buildsets differ at most in the embedded build with this uuid, which
\* is the object obj afterwards
OnlyBuildReplaced(before, after, obj) ==
    /\ DOMAIN after = DOMAIN before
    /\ \A i \in DOMAIN before :
          /\ [after[i] EXCEPT !.builds = <<>>] = [before[i] EXCEPT !.builds = <<>>]
          /\ DOMAIN after[i].builds = DOMAIN before[i].builds
          /\ \A j \in DOMAIN before[i].builds :
                after[i].builds[j] = IF before[i].builds[j].uuid = obj.uuid THEN obj
                                     ELSE before[i].builds[j]

\* C23: Build.update replaces the embedded build whose uuid is that of the
\* object and nothing else; when no buildset holds a build with that uuid it
\* raises DBError and the store is unchanged, and _process_build_info and
\* _process_step_info then return false
C23_AtomicUpdate ==
    [][ret'.op \in {"update", "build_info", "step_info"} =>
        IF BuildExists(buildsets, ret'.arg)
        THEN /\ OnlyBuildReplaced(buildsets, buildsets', ret'.obj)
             /\ ret'.val \in {"updated", "True"}
        ELSE /\ buildsets' = buildsets
             /\ ret'.val = (IF ret'.op = "update" THEN "DBError" ELSE "False")]_vars

\* an update of one build of a buildset of two whose other build had changed
C23_Witness ==
    /\ ret.op = "update"
    /\ ret.arg = Uuid(1, 2)
    /\ ret.val = "updated"
    /\ Build_get(buildsets, Uuid(1, 2)).status = "fail"
    /\ Build_get(buildsets, Uuid(1, 1)).status = RUNNING
    /\ Build_get(buildsets, Uuid(1, 1)).steps # <<>>

\* a step_info frame was processed for a build that is in no buildset
C23_WitnessGone ==
    /\ ret.op = "step_info"
    /\ ret.arg = GoneUuid
    /\ ret.val = "False"

----------------------------------------------------------------------------
(* C24 *)

\* C24: once start_pending has returned, every buildset that holds a pending
\* build is in the queue of the repository exactly once, or is the one a
\* consumer has taken from it
C24_AllPendingQueued ==
    ret.op = "start_pending" =>
        \A i \in DOMAIN buildsets :
            (\E j \in DOMAIN buildsets[i].builds : buildsets[i].builds[j].status = PENDING)
                => \/ Occurrences(build_queues, i) = 1
                   \/ \E k \in DOMAIN consumers : consumers[k].cur = i

----------------------------------------------------------------------------
(* C25 *)

\* no consumer is at work and nothing is queued
Quiescent ==
    /\ build_queues = <<>>
    /\ \A k \in DOMAIN consumers : consumers[k].pc = "done"

\* C25: for a revision whose build config is malformed get_builders returns
\* no builder and the branch of the revision as origin, the buildset gets no
\* build, and once the consumer is done with it its status is 'no builds'
C25_BadConfigNoBuilds ==
    /\ ret.op = "add_builds_of_revision"
          => /\ ret.val = [builders |-> <<>>, origin |-> ret.revision.branch]
             /\ buildsets[ret.arg].builds = <<>>
    /\ Quiescent => \A i \in DOMAIN buildsets : buildsets[i].status = NO_BUILDS

\* the part of it about get_builders and the builds, which the code keeps
C25_BadConfigEmpty ==
    ret.op = "add_builds_of_revision"
        => /\ ret.val = [builders |-> <<>>, origin |-> ret.revision.branch]
           /\ buildsets[ret.arg].builds = <<>>

----------------------------------------------------------------------------
(* C26 *)

\* the stored build the pass p of consumer k is at
PassBuild(bss, c, p) == Build_get(bss, c.objs[c.builds[c.passes[p].i]].uuid)

\* C26: a build for which is_ready2run has returned None to an admission
\* pass is not passed to _run_build: until the pass has cancelled it and
\* removed it from the internal queue it is pending (or cancelled already by
\* another pass), it was never started, and no _run_build task exists for it
C26_NoneNeverRun ==
    \A k \in DOMAIN consumers : \A p \in DOMAIN consumers[k].passes :
        consumers[k].passes[p].pc = "cancel"
            => /\ PassBuild(buildsets, consumers[k], p).status \in {PENDING, CANCELLED}
               /\ ~PassBuild(buildsets, consumers[k], p).started
               /\ \A r \in DOMAIN consumers[k].runs :
                     consumers[k].runs[r].pos
                         # consumers[k].builds[consumers[k].passes[p].i]

----------------------------------------------------------------------------
(* C27 *)

\* the builder passes the filter of the revision: include if given, else
\* exclude
PassesFilter(name, revision) ==
    IF revision.include # {} THEN name \in revision.include
    ELSE name \notin revision.exclude

\* C27: every build add_builds appends to the buildset of a revision is of a
\* builder that passes the include and exclude lists of the revision, also
\* when no builder passes them
C27_BuildsPassFilter ==
    ret.op = "add_builds_of_revision" =>
        \A j \in DOMAIN buildsets[ret.arg].builds :
            PassesFilter(buildsets[ret.arg].builds[j].builder, ret.revision)

\* the same whenever a builder passes the lists, which the code keeps
C27_BuildsPassFilterNonEmpty ==
    (ret.op = "add_builds_of_revision" /\ ret.val.builders # <<>>) =>
        \A j \in DOMAIN buildsets[ret.arg].builds :
            PassesFilter(buildsets[ret.arg].builds[j].builder, ret.revision)

----------------------------------------------------------------------------
(* C28 *)

\* C28: in every buildset, every rule of every build's triggered_by names a
\* builder that has a build in the same buildset
C28_RulesOnPresentBuilders ==
    \A i \in DOMAIN buildsets : \A j \in DOMAIN buildsets[i].builds :
        \A n \in DOMAIN buildsets[i].builds[j].triggered_by :
            \E j2 \in DOMAIN buildsets[i].builds :
                buildsets[i].builds[j2].builder
                    = buildsets[i].builds[j].triggered_by[n].builder_name

\* A was excluded: the buildset holds B without a rule and C with its rule on
\* B only
C28_Witness ==
    /\ ret.op = "add_builds_of_revision"
    /\ ret.revision.exclude = {"A"}
    /\ Len(buildsets[ret.arg].builds) = 2
    /\ buildsets[ret.arg].builds[1].builder = "B"
    /\ buildsets[ret.arg].builds[1].triggered_by = <<>>
    /\ buildsets[ret.arg].builds[2].triggered_by = <<Rule("B", {"success", "fail"})>>

----------------------------------------------------------------------------
(* C29 *)

\* the _run_build tasks of the executer that have ended, and those that have
\* counted themselves and not ended
EndedRuns(c) == {r \in DOMAIN c.runs : c.runs[r].pc \in {"done", "dead"}}
CountedRuns(c) == {r \in DOMAIN c.runs : c.runs[r].pc \in {"starting", "stream"}}

\* C29: whenever a _run_build task has ended, however it ended, its build is
\* out of the internal queue, the running counter has been decremented (it
\* counts the tasks that started and have not ended), and a follow-up
\* admission pass has been scheduled (one pass for the executer and one for
\* every task that ended)
C29_CleanupAlways ==
    \A k \in DOMAIN consumers :
        LET c == consumers[k]
        IN  c.pc = "wait"
            => /\ \A r \in EndedRuns(c) : ~InSeq(c.runs[r].pos, c.queue)
               /\ c.running = Cardinality(CountedRuns(c))
               /\ Len(c.passes) = 1 + Cardinality(EndedRuns(c))

----------------------------------------------------------------------------
(* C30 *)

----------------------------------------------------------------------------
(* C31 *)

\* C31: a build whose external field is set is dispatched with the envvars of
\* the repository only, whatever other builds the executer ran or runs; any
\* other build is dispatched with the envvars of the repository plus the
\* secrets, or with the envvars of the repository alone when the secrets
\* client failed.
C31_ExternalNoSecrets ==
    \A k \in DOMAIN consumers : \A i \in DOMAIN consumers[k].sent :
        LET d == consumers[k].sent[i]
            build == consumers[k].objs[d.pos]
        IN  d.envvars = IF build.external \/ ~d.secrets_ok
                        THEN repo.envvars
                        ELSE repo.envvars \cup Secrets

----------------------------------------------------------------------------
(* C32 *)

C32_WitnessNoSlaves ==
    \E k \in DOMAIN consumers :
        /\ repo.slaves = {}
        /\ consumers[k].returned = "False"
        /\ build_queues # <<>>

----------------------------------------------------------------------------
(* C33 *)

\* the build at position pos of the consumer's objects has a _run_build task
Launched(c, pos) == \E r \in DOMAIN c.runs : c.runs[r].pos = pos

\* a build that waits in the internal queue, was never launched, and whose
\* stored status is none of pending, preparing, running
ChangedOutside(c, pos) ==
    /\ InSeq(pos, c.queue)
    /\ ~Launched(c, pos)
    /\ Build_get(buildsets, c.objs[pos].uuid).status \notin queued_statuses

\* no admission pass is under way or will come
NoPassToCome(c) == LivePasses(c) = {} /\ ActiveRuns(c) = {}

\* C33: a build whose stored status is changed from outside to a status that
\* is none of pending, preparing, running while it waits in the internal
\* queue is dropped from the queue by the next admission pass and does not
\* keep execute() from returning: once no pass is under way or will come, no
\* such build is left in the queue.
C33_ChangedOutsideDropped ==
    \A k \in DOMAIN consumers :
        LET c == consumers[k]
        IN  (c.pc = "wait" /\ NoPassToCome(c)) =>
                \A pos \in DOMAIN c.objs : ~ChangedOutside(c, pos)

----------------------------------------------------------------------------
(* C34 *)

\* no two steps of a build share a uuid
UniqueStepUuids ==
    \A b \in AllBuilds(buildsets) : \A i, j \in DOMAIN b.steps :
        b.steps[i].uuid = b.steps[j].uuid => i = j

\* what a step_info frame does to the steps of its build
StepKeyedByUuid(before, after, info) ==
    IF get_step([steps |-> before], info.uuid) # 0
    THEN /\ Len(after) = Len(before)
         /\ \A i \in DOMAIN before :
               /\ after[i].uuid = before[i].uuid
               /\ after[i].status = IF before[i].uuid = info.uuid THEN info.status
                                     ELSE before[i].status
    ELSE /\ Len(after) = Len(before) + 1
         /\ SubSeq(after, 1, Len(before)) = before
         /\ after[Len(after)].uuid = info.uuid

\* C34: the steps of a build are keyed by uuid: no two steps of a build share
\* a uuid; a step_info frame whose uuid is that of a step of the build updates
\* the step in place and leaves the number of steps as it is, and a frame with
\* a new uuid appends exactly one step.
C34_StepsKeyedByUuid ==
    /\ []UniqueStepUuids
    /\ [][\A info \in StepFrames :
             ProcessStepInfo(Uuid(1, 1), info) =>
                 StepKeyedByUuid(Build_get(buildsets, Uuid(1, 1)).steps,
                                 Build_get(buildsets', Uuid(1, 1)).steps, info)]_vars

\* a frame ended the first of two steps in place
C34_Witness ==
    /\ ret.op = "step_info"
    /\ Len(StepsOf(Uuid(1, 1))) = 2
    /\ StepsOf(Uuid(1, 1))[1].status = "success"
    /\ StepsOf(Uuid(1, 1))[2].status = RUNNING

----------------------------------------------------------------------------
(* C35 *)

\* finished - started in whole seconds
WholeSeconds(finished, started) ==
    finished.s - started.s - (IF finished.us < started.us THEN 1 ELSE 0)

\* C35: when _set_finished_for_buildset marks a buildset finished, total_time
\* is finished minus started in whole seconds, for every started <= finished,
\* durations of a day or more included.
C35_TotalTime ==
    ret.op = "set_finished_for_buildset" =>
        ret.val = WholeSeconds(ret.finished, ret.started)

----------------------------------------------------------------------------
(* C36 *)

\* C36: an executer launches _run_build at most once for each build, in every
\* interleaving of its admission passes: a build that was launched and whose
\* stored status is still pending is not launched again by a later pass.
C36_LaunchedOnce ==
    \A k \in DOMAIN consumers : \A r1, r2 \in DOMAIN consumers[k].runs :
        consumers[k].runs[r1].pos = consumers[k].runs[r2].pos => r1 = r2

----------------------------------------------------------------------------
(* C37 *)

\* C37: the running counter of an executer equals the number of its
\* _run_build tasks that have started and not finished; it is never negative,
\* and it is 0 whenever no _run_build task is active, also when
\* _handle_queue_changes took a build out of the internal queue before the
\* cleanup of its _run_build.
C37_RunningCounter ==
    \A k \in DOMAIN consumers :
        LET c == consumers[k]
        IN  /\ c.running >= 0
            /\ c.running = Cardinality(CountedRuns(c))
            /\ ActiveRuns(c) = {} => c.running = 0

----------------------------------------------------------------------------
(* C38 *)

\* no executer has launched a _run_build task for the build
NeverLaunched(uuid) ==
    \A k \in DOMAIN consumers : \A r \in DOMAIN consumers[k].runs :
        consumers[k].objs[consumers[k].runs[r].pos].uuid # uuid

\* C38: a build that is cancelled when the consumer loop pops its buildset is
\* not enqueued on a slave: no slave's enqueued_builds holds the uuid of a
\* build whose stored status is cancelled (the builds a worker was given are
\* left aside here: what the session does to the queue of the slave is not
\* part of the claim).
C38_CancelledNotEnqueued ==
    \A s \in Slaves : \A b \in AllBuilds(buildsets) :
        (b.status = CANCELLED /\ NeverLaunched(b.uuid)) =>
            ~InSeq(b.uuid, slaves[s].enqueued_builds)

----------------------------------------------------------------------------
(* C39 *)

\* C39: a build-cancelled event is emitted for a build only when the stored
\* status of that build is cancelled: a running build whose cancel is only
\* forwarded to the worker gets no build-cancelled event.
C39_CancelledEventOnlyWhenCancelled ==
    [][\A uuid \in StoredUuids :
          (/\ Signal("build-cancelled", uuid) \notin signals
           /\ Signal("build-cancelled", uuid) \in signals')
          => /\ BuildExists(buildsets', uuid)
             /\ Build_get(buildsets', uuid).status = CANCELLED]_vars

----------------------------------------------------------------------------
(* C40 *)

\* two builders whose rules reference each other
ConfCyclic ==
    <<Builder("A", <<Rule("B", {"success"})>>),
      Builder("B", <<Rule("A", {"success"})>>)>>

ReposCyclic == Repos \cup {TheRepo(0, ConfCyclic, Slaves)}

SpecCyclic == InitEmpty(ReposCyclic) /\ [][NextExecute]_vars

\* execute() sleeps on a queue that nothing will change any more: no pass is
\* under way, every task that was launched has run to its end, and no task
\* is left to schedule a follow-up pass
WaitsForever(c) ==
    /\ c.pc = "wait"
    /\ c.queue # <<>>
    /\ LivePasses(c) = {}
    /\ \A r \in DOMAIN c.runs : c.runs[r].pc = "done"

\* C40: for every buildset and every triggered_by configuration, rules that
\* reference each other included, execute() returns once every launched
\* slave.build call has returned: the internal queue becomes empty and no
\* build stays pending in it for ever, so execute() is never left waiting on
\* a queue that nothing will change.
C40_ExecuteReturns ==
    \A k \in DOMAIN consumers : ~WaitsForever(consumers[k])

====
